---- MODULE Spec2Model ----
(***************************************************************************)
(* A model of the multilevelcli parser engine                              *)
(* (src/multilevelcli/multilevelcli.py).                                   *)
(*                                                                         *)
(* Strings are sequences of one-character strings, so that startswith,     *)
(* slicing and dotted-path concatenation are computed as the code computes *)
(* them.  Python values are records with one field per kind; dictionaries  *)
(* that the code iterates are sequences in insertion order.                *)
(***************************************************************************)
EXTENDS Integers, Sequences, FiniteSets, TLC

VARIABLES
    tree,      \* the declaration tree: node id -> ParseBase object
    pc,        \* position of the parse() call: "idle", "scan", "after_try", "done"
    tokens,    \* the token list handed to parse()
    partial,   \* the partial flag handed to parse()
    stack,     \* activations of GroupType._parse / CommandType._parse, innermost last
    cli,       \* the CliResult of the running parse() call
    outcome,   \* "none" while running, "Result" on return, else the exception raised
    calls,     \* handlers invoked so far, in order: <<[kind, fn, node]>>
    lex,       \* a running tokenize() call: [s, st, pc], s the input read so far
    conv,      \* a value token handed to a typed argument or option:
               \* [decl, token, pc, caller, exc, val]
    build,     \* the last add_group / add_command / add_option call:
               \* [n, op, target, name, short, long, exc, ret], n the calls so
               \* far, ret the value returned
    other,     \* a second parse() call, not running now: <<>> if there is
               \* none, else <<[pc, tokens, partial, stack, cli, outcome, calls]>>
    hist       \* the parse() calls that returned: [n, first], first the input
               \* and the end of the first of them, <<>> before

vars ==
    <<tree, pc, tokens, partial, stack, cli, outcome, calls, lex, conv, build,
      other, hist>>

-----------------------------------------------------------------------------
(* Bounds *)

\* most add_group / add_command / add_option calls on a fresh parser
MaxCalls == 3

\* longest token list handed to parse()
MaxTokens == 4

\* longest string handed to tokenize()
MaxChars == 5

\* most items written in one list or struct literal
MaxItems == 2

-----------------------------------------------------------------------------
(* Strings *)

Digits == <<"0", "1", "2", "3", "4", "5", "6", "7", "8", "9">>

DigitChars == {Digits[k] : k \in 1..10}

DigitVal(c) == (CHOOSE k \in 1..10 : Digits[k] = c) - 1

QuoteChars == {"\"", "'"}

SpaceChars == {" ", "\t", "\n"}

startswith(s, p) == Len(s) >= Len(p) /\ SubSeq(s, 1, Len(p)) = p

\* s[n:]
slice_from(s, n) == SubSeq(s, n + 1, Len(s))

RECURSIVE lstrip(_, _)
lstrip(s, chars) ==
    IF s # <<>> /\ Head(s) \in chars THEN lstrip(Tail(s), chars) ELSE s

RECURSIVE rstrip(_, _)
rstrip(s, chars) ==
    IF s # <<>> /\ s[Len(s)] \in chars
    THEN rstrip(SubSeq(s, 1, Len(s) - 1), chars)
    ELSE s

\* str.strip(chars): every leading and trailing character of the set goes
str_strip(s, chars) == rstrip(lstrip(s, chars), chars)

\* MultiLevelCliBase.strip: s.strip("\"'").strip()
strip(s) == str_strip(str_strip(s, QuoteChars), SpaceChars)

-----------------------------------------------------------------------------
(* MultiLevelCliBase.tokenize.  The state of its loop is a record           *)
(* [tokens, groups, quoted, cur, escape]; quoted is "None" or the quote     *)
(* character that is open.  The sep argument is a set of characters, None   *)
(* is the empty set (no caller passes an empty list).                       *)

Grouping == {"[", "{"}

Escaping == {"\\"}

\* ends = { '[' : ']', '{' : '}' }
ends(c) == IF c = "[" THEN "]" ELSE "}"

\* str.strip() without argument
strip_ws(s) == str_strip(s, SpaceChars)

\* the locals of tokenize before its loop
tokenize_start ==
    [tokens |-> <<>>, groups |-> <<>>, quoted |-> "None", cur |-> <<>>,
     escape |-> FALSE]

\* "c in grouping and (not c in groups)": groups holds closing markers, so
\* an opening character is never found in it
opens_group_new_kind(st, c) ==
    c \in Grouping /\ \A k \in 1..Len(st.groups) : st.groups[k] # ends(c)

opens_group(st, c) ==
    c \in Grouping /\ \A k \in 1..Len(st.groups) : st.groups[k] # c

\* "not groups and (str(c).isspace() if sep is None else c in sep)"
splits(st, c, sep) ==
    st.groups = <<>> /\ (IF sep = {} THEN c \in SpaceChars ELSE c \in sep)

\* "if c in escaping: cur += c": the buffer keeps the escape character
escape_dropped(cur, c) == cur

escape_kept(cur, c) == cur \o <<c>>

\* one pass of "for c in s"
tokenize_char(st, c, sep) ==
    IF st.escape THEN [st EXCEPT !.cur = @ \o <<c>>, !.escape = FALSE]
    ELSE IF c \in Escaping
    THEN [st EXCEPT !.cur = escape_kept(@, c), !.escape = TRUE]
    ELSE IF c \in QuoteChars /\ st.groups = <<>>
    THEN [st EXCEPT !.quoted = IF @ # "None" /\ @ = c THEN "None"
                               ELSE IF @ = "None" THEN c ELSE @,
                    !.cur = @ \o <<c>>]
    ELSE IF st.quoted # "None" THEN [st EXCEPT !.cur = @ \o <<c>>]
    ELSE IF opens_group(st, c)
    THEN [st EXCEPT !.groups = Append(@, ends(c)), !.cur = @ \o <<c>>]
    ELSE IF st.groups # <<>> /\ c = st.groups[Len(st.groups)]
    THEN [st EXCEPT !.groups = SubSeq(@, 1, Len(@) - 1), !.cur = @ \o <<c>>]
    ELSE IF splits(st, c, sep)
    THEN IF strip_ws(st.cur) = <<>> THEN st
         ELSE [st EXCEPT !.tokens = Append(@, strip_ws(st.cur)), !.cur = <<>>]
    ELSE [st EXCEPT !.cur = @ \o <<c>>]

\* the test of the two raise statements after the loop
unbalanced_groups_only(st) == st.groups # <<>>

unbalanced(st) == st.groups # <<>> \/ st.quoted # "None"

\* the code after the loop: [exc, tokens]
tokenize_end(st) ==
    LET toks == IF st.cur # <<>> /\ strip_ws(st.cur) # <<>>
                THEN Append(st.tokens, strip_ws(st.cur))
                ELSE st.tokens
    IN  IF unbalanced(st) THEN [exc |-> "ParseExecption", tokens |-> <<>>]
        ELSE [exc |-> "none", tokens |-> toks]

RECURSIVE tokenize_loop(_, _, _)
tokenize_loop(st, s, sep) ==
    IF s = <<>> THEN st
    ELSE tokenize_loop(tokenize_char(st, Head(s), sep), Tail(s), sep)

\* tokenize(s, sep): [exc, tokens]
tokenize(s, sep) == tokenize_end(tokenize_loop(tokenize_start, s, sep))

-----------------------------------------------------------------------------
(* Python values *)

Namespace == [k \in {} |-> 0]

NoneV == [kind |-> "None", b |-> FALSE, n |-> 0, s |-> <<>>, sub |-> Namespace]

BoolV(x) == [kind |-> "bool", b |-> x, n |-> 0, s |-> <<>>, sub |-> Namespace]

IntV(x) == [kind |-> "int", b |-> FALSE, n |-> x, s |-> <<>>, sub |-> Namespace]

StrV(x) == [kind |-> "str", b |-> FALSE, n |-> 0, s |-> x, sub |-> Namespace]

NamespaceV(x) == [kind |-> "Namespace", b |-> FALSE, n |-> 0, s |-> <<>>, sub |-> x]

\* a Python list: sub holds the elements, in order
ListV(x) == [kind |-> "list", b |-> FALSE, n |-> 0, s |-> <<>>, sub |-> x]

\* Python truth value.  Namespace defines neither __bool__ nor __len__, so a
\* Namespace object is true whatever it holds.
Truthy(v) ==
    CASE v.kind = "None" -> FALSE
      [] v.kind = "bool" -> v.b
      [] v.kind = "int" -> v.n # 0
      [] v.kind = "str" -> v.s # <<>>
      [] v.kind = "Namespace" -> TRUE
      [] v.kind = "list" -> v.sub # <<>>

\* Python's "not v"
Not(v) == BoolV(~Truthy(v))

\* the literals int() takes: an optional sign and decimal digits
IsIntLiteral(s) ==
    LET d == IF s # <<>> /\ Head(s) \in {"+", "-"} THEN Tail(s) ELSE s
    IN  d # <<>> /\ \A k \in 1..Len(d) : d[k] \in DigitChars

RECURSIVE DigitsVal(_)
DigitsVal(d) ==
    IF d = <<>> THEN 0
    ELSE 10 * DigitsVal(SubSeq(d, 1, Len(d) - 1)) + DigitVal(d[Len(d)])

IntOf(s) ==
    IF Head(s) = "-" THEN 0 - DigitsVal(Tail(s))
    ELSE IF Head(s) = "+" THEN DigitsVal(Tail(s))
    ELSE DigitsVal(s)

\* (argtype)(s) for a scalar type: [ok, val]; ok = FALSE when the
\* constructor raises (ValueError)
Construct(argtype, s) ==
    CASE argtype = "int" ->
            IF IsIntLiteral(s) THEN [ok |-> TRUE, val |-> IntV(IntOf(s))]
            ELSE [ok |-> FALSE, val |-> NoneV]
      [] argtype = "str" -> [ok |-> TRUE, val |-> StrV(s)]

-----------------------------------------------------------------------------
(* Namespace *)

\* Namespace.__setitem__
ns_setitem(ns, item, value) ==
    [k \in DOMAIN ns \cup {item} |-> IF k = item THEN value ELSE ns[k]]

\* Namespace.__getitem__: the exact key, else the sub-namespace of the keys
\* that start with item + ".", re-keyed.  "if not ns: return None" never
\* returns: a Namespace object is always true.
ns_getitem(ns, item) ==
    IF item \in DOMAIN ns THEN ns[item]
    ELSE LET prefix == item \o <<".">>
             keys == {k \in DOMAIN ns : startswith(k, prefix)}
             sub == [j \in {slice_from(k, Len(prefix)) : k \in keys} |->
                        ns[prefix \o j]]
         IN  IF ~Truthy(NamespaceV(sub)) THEN NoneV ELSE NamespaceV(sub)

-----------------------------------------------------------------------------
(* Handlers *)

\* the module's default help function after MultiLevelArgParse(help=...) has
\* stored its help argument in the global
defhelpfn == "usage_and_raise_help"

\* the function a handler reference calls: _defhelpfn calls the global
Resolve(fn) == IF fn = "_defhelpfn" THEN defhelpfn ELSE fn

\* the exception a handler ends in
HandlerRaises(fn) ==
    CASE Resolve(fn) = "usage_and_exit" -> "SystemExit"
      [] Resolve(fn) = "usage_and_raise_help" -> "HelpRquired"
      [] Resolve(fn) = "usage_help_and_raise_nocommand" -> "NoCommand"
      [] Resolve(fn) = "raise_no_command" -> "NoCommand"
      [] Resolve(fn) = "usage_and_raise_no_command" -> "NoCommand"

-----------------------------------------------------------------------------
(* Declaration tree.  A tree maps object ids to ParseBase objects; None is  *)
(* the id "None", the string <<>> or the type "None".                      *)

NoNode == "None"

\* ParseBase.__level
RECURSIVE level_of(_, _)
level_of(tr, parent) ==
    IF parent = NoNode THEN 0 ELSE 1 + level_of(tr, tr[parent].parent)

\* ParseBase.full_name
RECURSIVE full_name(_, _, _, _)
full_name(tr, id, sep, lastsep) ==
    IF tr[id].parent = NoNode THEN <<>>
    ELSE full_name(tr, tr[id].parent, sep, TRUE) \o tr[id].name
            \o (IF lastsep THEN sep ELSE <<>>)

\* OptionType.__init__
OptionType(short, long, parent, name, default, opttype) ==
    [short |-> short, long |-> long, parent |-> parent, name |-> name,
     argtype |-> opttype, default |-> default]

\* the assertions of OptionType.__init__
OptionType_ok(short, long, default, opttype) ==
    /\ short # <<>> \/ long # <<>>
    /\ default = NoneV \/ default.kind = opttype

\* ParseBase.__add_option
ParseBase_add_option(tr, id, opt) ==
    [tr EXCEPT
        ![id].options = IF opt.short # <<>> THEN Append(@, opt) ELSE @,
        ![id].longoptions = IF opt.long # <<>> THEN Append(@, opt) ELSE @]

\* ParseBase_add_option_ok that looks at the short names only
ParseBase_add_option_ok_short(tr, id, opt) ==
    opt.short = <<>>
        \/ \A k \in 1..Len(tr[id].options) : tr[id].options[k].short # opt.short

\* the assertions of ParseBase.__add_option
ParseBase_add_option_ok(tr, id, opt) ==
    /\ opt.short = <<>>
         \/ \A k \in 1..Len(tr[id].options) : tr[id].options[k].short # opt.short
    /\ opt.long = <<>>
         \/ \A k \in 1..Len(tr[id].longoptions) :
                tr[id].longoptions[k].long # opt.long

\* ParseBase.add_option; a failed assertion leaves the tree as it was
add_option(tr, id, short, long, name, type, default) ==
    LET nm == IF name # <<>> THEN name ELSE IF long # <<>> THEN long ELSE short
        opt == OptionType(short, long, id, nm, default, type)
    IN  IF OptionType_ok(short, long, default, type)
           /\ ParseBase_add_option_ok(tr, id, opt)
        THEN ParseBase_add_option(tr, id, opt)
        ELSE tr

\* what ParseBase.add_option returns when no assertion fails: the option
\* ParseBase.__add_option returns
add_option_return(id, short, long, name, type, default) ==
    LET nm == IF name # <<>> THEN name ELSE IF long # <<>> THEN long ELSE short
    IN  [kind |-> "OptionType",
         opt |-> <<OptionType(short, long, id, nm, default, type)>>]

\* the value of a call that ends without a return statement, and of one
\* that raised
ReturnsNone == [kind |-> "None", opt |-> <<>>]

\* ParseBase.__init__ with the fields GroupType and CommandType add
ParseBase(tr, id, kind, name, parent, helpfn, defaultfn, ctx) ==
    LET node == [name |-> name, parent |-> parent, kind |-> kind,
                 level |-> level_of(tr, parent),
                 options |-> <<>>, longoptions |-> <<>>,
                 helpfn |-> helpfn, defaultfn |-> defaultfn,
                 commands |-> <<>>, groups |-> <<>>,
                 arguments |-> <<>>, ctx |-> ctx]
        t1 == [k \in DOMAIN tr \cup {id} |-> IF k = id THEN node ELSE tr[k]]
    IN  IF helpfn # "None"
        THEN add_option(t1, id, <<"h">>, <<"h", "e", "l", "p">>, <<>>, "None", NoneV)
        ELSE t1

\* the child of a group registered under a name, NoNode if there is none
child(tr, ids, name) ==
    IF \E k \in 1..Len(ids) : tr[ids[k]].name = name
    THEN ids[CHOOSE k \in 1..Len(ids) : tr[ids[k]].name = name]
    ELSE NoNode

\* GroupType.add_command
add_command(tr, grp, id, name, help, ctx) ==
    IF child(tr, tr[grp].commands, name) = NoNode
       /\ child(tr, tr[grp].groups, name) = NoNode
    THEN [ParseBase(tr, id, "command", name, grp, help, "None", ctx)
            EXCEPT ![grp].commands = Append(@, id)]
    ELSE tr

\* GroupType.add_group
add_group(tr, grp, id, name, defaultfn, help) ==
    IF child(tr, tr[grp].commands, name) = NoNode
       /\ child(tr, tr[grp].groups, name) = NoNode
    THEN [ParseBase(tr, id, "group", name, grp, help, defaultfn, NoneV)
            EXCEPT ![grp].groups = Append(@, id)]
    ELSE tr

\* a group has a child group or a child command of the name
in_group(tr, grp, name) ==
    \/ child(tr, tr[grp].groups, name) # NoNode
    \/ child(tr, tr[grp].commands, name) # NoNode

\* GroupType.add_option: [tree, exc, ret].  The assertions before the call
\* of ParseBase.add_option leave the tree as it was; the two after it are
\* raised with the option registered.  The value of ParseBase.add_option is
\* dropped and the method ends without a return statement.
GroupType_add_option(tr, id, short, long, name, type, default) ==
    IF (short # <<>> /\ in_group(tr, id, short))
       \/ (long # <<>> /\ in_group(tr, id, long))
    THEN [tree |-> tr, exc |-> "AssertionError", ret |-> ReturnsNone]
    ELSE LET t1 == add_option(tr, id, short, long, name, type, default)
         IN  IF t1 = tr
             THEN [tree |-> tr, exc |-> "AssertionError", ret |-> ReturnsNone]
             ELSE IF in_group(tr, id, tr[id].name)
             THEN [tree |-> t1, exc |-> "AssertionError", ret |-> ReturnsNone]
             ELSE [tree |-> t1, exc |-> "none", ret |-> ReturnsNone]

\* no parse() call has returned yet
hist_idle == [n |-> 0, first |-> <<>>]

\* no builder call made yet
build_idle ==
    [n |-> 0, op |-> "none", target |-> NoNode, name |-> <<>>,
     short |-> <<>>, long |-> <<>>, exc |-> "none", ret |-> ReturnsNone]

\* CommandType.add_argument for a scalar type
add_argument(tr, cmd, name, type) ==
    IF \A k \in 1..Len(tr[cmd].arguments) : tr[cmd].arguments[k].name # name
    THEN [tr EXCEPT ![cmd].arguments =
                Append(@, [name |-> name, argtype |-> type, parent |-> cmd])]
    ELSE tr

\* MultiLevelArgParse.__init__
MultiLevelArgParse(help, defaultfn) ==
    ParseBase([k \in {} |-> 0], "root", "group", <<"p", "r", "o", "g">>, NoNode,
              IF help # "None" THEN help ELSE defhelpfn,
              IF defaultfn # "None" THEN defaultfn ELSE "usage_and_exit",
              NoneV)

\* The declarations of test_main, cut down to three levels:
\*   prog [-h/--help] [-t/--lvl <int>=7]
\*     new [-h/--help] [-l] [-t <int>=3] <size:int>
\*     class [-h/--help] [-t/--trim]
\*       new [-h/--help] [-l/--log <int>=5] [-t/--tag <str>] <name> <size:int>
\*     beta                      (no help handler, no no-command handler)
\*       new                     (no help handler, ctx "context")
t_new == <<"n", "e", "w">>

t_class == <<"c", "l", "a", "s", "s">>

t_beta == <<"b", "e", "t", "a">>

t_context == <<"c", "o", "n", "t", "e", "x", "t">>

DemoTree ==
    LET t0 == MultiLevelArgParse("usage_and_raise_help", "usage_and_raise_no_command")
        t1 == add_option(t0, "root", <<"t">>, <<"l", "v", "l">>, <<>>, "int", IntV(7))
        t2 == add_command(t1, "root", "new", t_new, "_defhelpfn", NoneV)
        t3 == add_argument(t2, "new", <<"s", "i", "z", "e">>, "int")
        t5 == add_option(t3, "new", <<"l">>, <<>>, <<>>, "None", NoneV)
        t6 == add_option(t5, "new", <<"t">>, <<>>, <<>>, "int", IntV(3))
        t7 == add_group(t6, "root", "class", t_class,
                        "usage_and_raise_no_command", "_defhelpfn")
        t8 == add_option(t7, "class", <<"t">>, <<"t", "r", "i", "m">>, <<>>, "None", NoneV)
        t9 == add_command(t8, "class", "class_new", t_new, "_defhelpfn", NoneV)
        t10 == add_argument(
                   add_argument(t9, "class_new", <<"n", "a", "m", "e">>, "str"),
                   "class_new", <<"s", "i", "z", "e">>, "int")
        t11 == add_option(t10, "class_new", <<"l">>, <<"l", "o", "g">>, <<>>, "int", IntV(5))
        t12 == add_option(t11, "class_new", <<"t">>, <<"t", "a", "g">>, <<>>, "str", NoneV)
        t13 == add_group(t12, "root", "beta", t_beta, "None", "None")
        t14 == add_command(t13, "beta", "beta_new", t_new, "None", StrV(t_context))
    IN  t14

-----------------------------------------------------------------------------
(* CliResult.  Operations that can raise return [cli, exc]: the result so  *)
(* far and the exception raised, "none" if none.                           *)

\* CliResult.__init__
CliResult ==
    [command |-> NoNode, command_arguments |-> <<>>, command_options |-> {},
     group |-> NoNode, ns |-> Namespace, args_ns |-> Namespace,
     levels_ns |-> <<Namespace>>, max_level |-> 0, left_tokens |-> <<>>,
     ctx |-> NoneV]

\* CliResult.set_group
set_group(c, group) == [c EXCEPT !.group = group]

\* set_command that forgets the context handed to it
set_command_no_ctx(c, cmd, ctx) == [c EXCEPT !.command = cmd]

\* CliResult.set_command
set_command(c, cmd, ctx) == [c EXCEPT !.command = cmd, !.ctx = ctx]

\* CliResult.add_command_arg
add_command_arg(c, arg, val) ==
    [c EXCEPT !.command_arguments = Append(@, arg),
              !.args_ns = ns_setitem(@, arg.name, val)]

\* init_level that checks the level and never opens one
init_level_no_grow(c, level) ==
    IF level > c.max_level + 1 THEN [cli |-> c, exc |-> "ParseExecption"]
    ELSE [cli |-> c, exc |-> "none"]

\* CliResult.init_level
init_level(c, level) ==
    IF level > c.max_level + 1 THEN [cli |-> c, exc |-> "ParseExecption"]
    ELSE IF level > c.max_level
    THEN [cli |-> [c EXCEPT !.levels_ns = Append(@, Namespace),
                            !.max_level = @ + 1],
          exc |-> "none"]
    ELSE [cli |-> c, exc |-> "none"]

\* set_command_options that writes the namespace of level 0 whatever the
\* level handed to it
set_command_options_root(c, level, name, opt, val) ==
    IF level > c.max_level THEN [cli |-> c, exc |-> "ParseExecption"]
    ELSE [cli |-> [c EXCEPT !.command_options = @ \cup {name},
                            !.levels_ns[1] = ns_setitem(@, name, val)],
          exc |-> "none"]

\* CliResult.set_command_options; levels_ns[level] is the (level+1)-th entry
set_command_options(c, level, name, opt, val) ==
    IF level > c.max_level THEN [cli |-> c, exc |-> "ParseExecption"]
    ELSE [cli |-> [c EXCEPT !.command_options = @ \cup {name},
                            !.levels_ns[level + 1] = ns_setitem(@, name, val)],
          exc |-> "none"]

\* CliResult.__setitem__
cli_setitem(c, item, value) == [c EXCEPT !.ns = ns_setitem(@, item, value)]

\* CliResult.ns(level)
cli_ns(c, level) == c.levels_ns[level + 1]

\* CliResult.opt
cli_opt(c) == c.levels_ns[c.max_level + 1]

\* CliResult.set_unparsed_tokens
set_unparsed_tokens(c, toks) == [c EXCEPT !.left_tokens = toks]

-----------------------------------------------------------------------------
(* Argument types.  A declared type is a record [cls, name, elem, fields]: *)
(* cls is "int" or "str" for a Python type, "list" for a one-element list  *)
(* [t] (elem = <<t>>), "dict" for a dict of types (fields: key -> type).   *)
(* nested_type turns lists and dicts into ListType / StructType objects,   *)
(* records of the same shape with the object's name.  The parse operators  *)
(* return [exc, val].                                                      *)

PyType(cls) == [cls |-> cls, name |-> <<>>, elem |-> <<>>, fields |-> Namespace]

PyList(t) == [cls |-> "list", name |-> <<>>, elem |-> <<t>>, fields |-> Namespace]

PyDict(fields) == [cls |-> "dict", name |-> <<>>, elem |-> <<>>, fields |-> fields]

endswith(s, p) ==
    Len(s) >= Len(p) /\ SubSeq(s, Len(s) - Len(p) + 1, Len(s)) = p

\* s[1:-1]
interior(s) == SubSeq(s, 2, Len(s) - 1)

RECURSIVE nested_type(_, _)
RECURSIVE ListType(_, _)
RECURSIVE StructType(_, _)

\* MultiLevelCliBase.nested_type
nested_type(name, argtype) ==
    IF argtype.cls = "list"
    THEN ListType(name \o <<".", "a", "r", "r", "a", "y">>, argtype)
    ELSE IF argtype.cls = "dict"
    THEN StructType(name \o <<".", "s", "t", "r", "u", "c", "t">>, argtype)
    ELSE argtype

\* ListType.__init__ for a list of one type
ListType(name, argtype) ==
    [cls |-> "ListType", name |-> name,
     elem |-> <<nested_type(name, argtype.elem[1])>>, fields |-> Namespace]

\* StructType.__init__
StructType(name, argtype) ==
    [cls |-> "StructType", name |-> name, elem |-> <<>>,
     fields |-> [k \in DOMAIN argtype.fields |->
                    nested_type(name, argtype.fields[k])]]

\* "isinstance(self.argtype, MultiLevelCliBase.ArgType)"
is_ArgType(t) == t.cls \in {"ListType", "StructType"}

\* "nested = CliResult(); t._parse(nested, arg); nested.args()[t.name]": the
\* value the nested result holds under the name of the type object
nested_value(t, val) ==
    ns_getitem(add_command_arg(CliResult, t, val).args_ns, t.name)

\* reraised that turns every exception into ArgumentTypeError
reraised_as_type_error(exc) == "ArgumentTypeError"

\* the exception a list or struct loop raises for an exception of a piece:
\* a ParseExecption goes on as it is, any other one as ArgumentTypeError
reraised(exc) ==
    IF exc \in {"ParseExecption", "ArgumentTypeError", "ArgumentKeyError"}
    THEN exc
    ELSE "ArgumentTypeError"

RECURSIVE Type_parse(_, _)
RECURSIVE ListType_loop(_, _, _)
RECURSIVE StructType_loop(_, _, _)

\* "for arg in args" of ListType._parse; array holds the values so far
ListType_loop(t, args, array) ==
    IF args = <<>> THEN [exc |-> "none", val |-> ListV(array)]
    ELSE LET arg == Head(args)
             r == IF is_ArgType(t.elem[1])
                  THEN LET n == Type_parse(t.elem[1], arg)
                       IN  IF n.exc # "none" THEN n
                           ELSE [exc |-> "none",
                                 val |-> nested_value(t.elem[1], n.val)]
                  ELSE LET v == Construct(t.elem[1].cls, strip(arg))
                       IN  IF v.ok THEN [exc |-> "none", val |-> v.val]
                           ELSE [exc |-> "ValueError", val |-> NoneV]
         IN  IF r.exc # "none" THEN [exc |-> reraised(r.exc), val |-> NoneV]
             ELSE ListType_loop(t, Tail(args), Append(array, r.val))

\* ListType._parse without the test for the '[' and the ']'
ListType_parse_unchecked(t, arglist) ==
    LET args == tokenize(interior(strip_ws(arglist)), {","})
    IN  IF args.exc # "none" THEN [exc |-> args.exc, val |-> NoneV]
        ELSE ListType_loop(t, args.tokens, <<>>)

\* ListType._parse
ListType_parse(t, arglist) ==
    LET a == strip_ws(arglist)
    IN  IF ~startswith(a, <<"[">>) \/ ~endswith(a, <<"]">>)
        THEN [exc |-> "ArgumentTypeError", val |-> NoneV]
        ELSE LET args == tokenize(interior(a), {","})
             IN  IF args.exc # "none" THEN [exc |-> args.exc, val |-> NoneV]
                 ELSE ListType_loop(t, args.tokens, <<>>)

\* one pass of "for arg in args" of StructType._parse: [exc, key, val]
StructType_pair(t, arg) ==
    LET keyval == tokenize(arg, {"="})
    IN  IF keyval.exc # "none" THEN [exc |-> keyval.exc, key |-> <<>>, val |-> NoneV]
        ELSE IF Len(keyval.tokens) # 2
        THEN [exc |-> "ArgumentTypeError", key |-> <<>>, val |-> NoneV]
        ELSE LET k == strip(keyval.tokens[1])
                 v == strip(keyval.tokens[2])
             IN  IF k \notin DOMAIN t.fields
                 THEN [exc |-> "ArgumentKeyError", key |-> k, val |-> NoneV]
                 ELSE IF is_ArgType(t.fields[k])
                 THEN LET n == Type_parse(t.fields[k], v)
                      IN  IF n.exc # "none"
                          THEN [exc |-> n.exc, key |-> k, val |-> NoneV]
                          ELSE [exc |-> "none", key |-> k,
                                val |-> nested_value(t.fields[k], n.val)]
                 ELSE LET c == Construct(t.fields[k].cls, strip_ws(v))
                      IN  IF c.ok THEN [exc |-> "none", key |-> k, val |-> c.val]
                          ELSE [exc |-> "ValueError", key |-> k, val |-> NoneV]

\* "for arg in args" of StructType._parse; struct is the Namespace so far
StructType_loop(t, args, struct) ==
    IF args = <<>> THEN [exc |-> "none", val |-> NamespaceV(struct)]
    ELSE LET r == StructType_pair(t, Head(args))
         IN  IF r.exc # "none" THEN [exc |-> reraised(r.exc), val |-> NoneV]
             ELSE StructType_loop(t, Tail(args), ns_setitem(struct, r.key, r.val))

\* StructType._parse that starts from a struct holding None for every
\* declared key
StructType_parse_defaulted(t, arglist) ==
    LET a == strip_ws(arglist)
    IN  IF ~startswith(a, <<"{">>) \/ ~endswith(a, <<"}">>)
        THEN [exc |-> "ArgumentTypeError", val |-> NoneV]
        ELSE LET args == tokenize(interior(a), {","})
             IN  IF args.exc # "none" THEN [exc |-> args.exc, val |-> NoneV]
                 ELSE StructType_loop(t, args.tokens,
                                      [k \in DOMAIN t.fields |-> NoneV])

\* StructType._parse
StructType_parse(t, arglist) ==
    LET a == strip_ws(arglist)
    IN  IF ~startswith(a, <<"{">>) \/ ~endswith(a, <<"}">>)
        THEN [exc |-> "ArgumentTypeError", val |-> NoneV]
        ELSE LET args == tokenize(interior(a), {","})
             IN  IF args.exc # "none" THEN [exc |-> args.exc, val |-> NoneV]
                 ELSE StructType_loop(t, args.tokens, Namespace)

\* t._parse(cli, arg) of a ListType or StructType object
Type_parse(t, arg) ==
    IF t.cls = "ListType" THEN ListType_parse(t, arg) ELSE StructType_parse(t, arg)

\* no value token is being converted
conv_idle ==
    [decl |-> PyType("str"), token |-> <<>>, pc |-> "idle", caller |-> "none",
     exc |-> "none", val |-> NoneV]

-----------------------------------------------------------------------------
(* ParseBase.set_defaults *)

\* the value set_defaults computes for an option
default_val(o) ==
    IF o.argtype # "None" \/ o.default # NoneV THEN o.default ELSE BoolV(FALSE)

\* one pass of "cli[path + o.name] = val; cli.set_command_options(...)"
seed_option(tr, id, r, o) ==
    IF r.exc # "none" THEN r
    ELSE set_command_options(
            cli_setitem(r.cli, full_name(tr, id, <<".">>, TRUE) \o o.name,
                        default_val(o)),
            tr[id].level, o.name, o, default_val(o))

\* the first loop: every option with a long name
RECURSIVE seed_long(_, _, _, _)
seed_long(tr, id, r, k) ==
    IF k > Len(tr[id].longoptions) THEN r
    ELSE seed_long(tr, id, seed_option(tr, id, r, tr[id].longoptions[k]), k + 1)

\* whether the second loop seeds option o: it has no long name ("o not in
\* self.longoptions.values()") and a default ("if o.default is not None")
seeds_short(tr, id, o) ==
    /\ \A k \in 1..Len(tr[id].longoptions) : tr[id].longoptions[k] # o
    /\ o.default # NoneV

\* the second loop: the options that have only a short name
RECURSIVE seed_short(_, _, _, _)
seed_short(tr, id, r, k) ==
    IF k > Len(tr[id].options) THEN r
    ELSE seed_short(tr, id,
                    IF seeds_short(tr, id, tr[id].options[k])
                    THEN seed_option(tr, id, r, tr[id].options[k])
                    ELSE r,
                    k + 1)

set_defaults(tr, id, c) ==
    LET r0 == init_level(c, tr[id].level)
    IN  IF r0.exc # "none" THEN r0
        ELSE seed_short(tr, id, seed_long(tr, id, r0, 1), 1)

-----------------------------------------------------------------------------
(* Option and argument parsing.  These return [cli, exc, consumed, calls]: *)
(* calls are the handlers invoked on the way.                              *)

\* the option a dictionary of options holds under a key, as a set: empty
\* when the key is missing (KeyError)
lookup(opts, long, optname) ==
    {opts[k] : k \in {j \in 1..Len(opts) :
                        IF long THEN opts[j].long = optname
                        ELSE opts[j].short = optname}}

\* find_option that goes on to the enclosing groups when the owner does
\* not declare the option
RECURSIVE find_option_inherited(_, _, _, _)
find_option_inherited(tr, id, long, optname) ==
    LET own == lookup(IF long THEN tr[id].longoptions ELSE tr[id].options,
                      long, optname)
    IN  IF own # {} \/ tr[id].parent = NoNode THEN own
        ELSE find_option_inherited(tr, tr[id].parent, long, optname)

\* "self.longoptions[optname] if long else self.options[optname]": the
\* options of the owner itself are searched, and no other
find_option(tr, id, long, optname) ==
    lookup(IF long THEN tr[id].longoptions ELSE tr[id].options, long, optname)

\* flag_value as a toggle of the value the result holds
flag_value_toggle(opt, c, var) == Not(ns_getitem(c.ns, var))

\* the value a mentioned flag gets: "val = not self.default"
flag_value(opt, c, var) == Not(opt.default)

\* OptionType._parse for a flag or a scalar-typed option; toks are the
\* tokens after the option token
OptionType_parse(tr, opt, c, path, toks) ==
    LET var == path \o opt.name
        store(val, n) ==
            LET r == set_command_options(cli_setitem(c, var, val),
                                         tr[opt.parent].level, opt.name, opt, val)
            IN  [cli |-> r.cli, exc |-> r.exc, consumed |-> n]
    IN  IF opt.argtype # "None"
        THEN IF toks = <<>>
             THEN [cli |-> c, exc |-> "IndexError", consumed |-> 0]
             ELSE LET v == Construct(opt.argtype, strip(toks[1]))
                  IN  IF ~v.ok
                      THEN [cli |-> c, exc |-> "ValueError", consumed |-> 0]
                      ELSE store(v.val, 2)
        ELSE store(flag_value(opt, c, var), 1)

\* whether parse_option finds the option lacking its parameter: toks starts
\* with the option token itself
missing_param(opt, toks) == opt.argtype # "None" /\ toks = <<>>

\* help_wanted reading the unified namespace, where "help" is the root's
help_wanted_unified(tr, id, c) ==
    /\ tr[id].helpfn # "None"
    /\ Truthy(ns_getitem(c.ns, <<"h", "e", "l", "p">>))

\* whether parse_option calls the help handler after the option is parsed
help_wanted(tr, id, c) ==
    /\ tr[id].helpfn # "None"
    /\ Truthy(ns_getitem(cli_ns(c, tr[id].level), <<"h", "e", "l", "p">>))

\* ParseBase.parse_option; toks are the tokens from the option token on
parse_option(tr, id, c, optname, toks, long) ==
    LET found == find_option(tr, id, long, optname)
        fail(e) == [cli |-> c, exc |-> e, consumed |-> 0, calls |-> <<>>]
    IN  IF found = {} THEN fail("OptionNotFound")
        ELSE LET opt == CHOOSE o \in found : TRUE
             IN  IF missing_param(opt, toks) THEN fail("OptionNoParam")
                 ELSE LET r == OptionType_parse(tr, opt, c,
                                    full_name(tr, id, <<".">>, TRUE),
                                    slice_from(toks, 1))
                      IN  IF r.exc # "none"
                          THEN [cli |-> r.cli, exc |-> r.exc, consumed |-> 0,
                                calls |-> <<>>]
                          ELSE IF help_wanted(tr, id, r.cli)
                          THEN [cli |-> r.cli,
                                exc |-> HandlerRaises(tr[id].helpfn),
                                consumed |-> r.consumed,
                                calls |-> <<[kind |-> "helpfn",
                                             fn |-> Resolve(tr[id].helpfn),
                                             node |-> id]>>]
                          ELSE [cli |-> r.cli, exc |-> "none",
                                consumed |-> r.consumed, calls |-> <<>>]

\* ArgType._parse for a scalar type: any exception of the conversion is
\* raised again as ArgumentTypeError
ArgType_parse(tr, arg, c, t) ==
    LET v == Construct(arg.argtype, strip(t))
    IN  IF ~v.ok THEN [cli |-> c, exc |-> "ArgumentTypeError", consumed |-> 0]
        ELSE [cli |-> add_command_arg(
                        cli_setitem(c, full_name(tr, arg.parent, <<".">>, TRUE)
                                          \o arg.name, v.val),
                        arg, v.val),
              exc |-> "none", consumed |-> 1]

-----------------------------------------------------------------------------
(* The parse() call as a state machine: one step per call, per iteration   *)
(* of a token scan, and per return.  A frame is one activation of _parse:  *)
(* its tokens are tokens[start:], i and argnum are its local variables.    *)

\* the tokens a command line is made of
Tokens ==
    {<<"-", "-", "h", "e", "l", "p">>, <<"-", "t">>, <<"-", "l">>,
     t_new, t_class, t_beta, <<"a", "b">>, <<"7">>}

TokenLists == UNION {[1..n -> Tokens] : n \in 0..MaxTokens}

top == stack[Len(stack)]

\* the token list the activation was handed
frame_tokens(f) == slice_from(tokens, f.start)

\* tokens[i] of the activation
cur(f) == frame_tokens(f)[f.i + 1]

scanning(kind) ==
    /\ pc = "scan"
    /\ tree[top.node].kind = kind
    /\ top.i < Len(frame_tokens(top))

\* raise with parse() catching every exception when partial
raise_catch_all(exc, c, called) ==
    /\ cli' = c
    /\ calls' = calls \o called
    /\ stack' = <<>>
    /\ IF partial
       THEN pc' = "after_try" /\ outcome' = "none"
       ELSE pc' = "done" /\ outcome' = exc
    /\ UNCHANGED <<other, hist, build, conv, lex, tree, tokens, partial>>

\* an exception leaves every activation; parse() catches UnknownToken alone,
\* and only when partial
raise(exc, c, called) ==
    /\ cli' = c
    /\ calls' = calls \o called
    /\ stack' = <<>>
    /\ IF exc = "UnknownToken" /\ partial
       THEN pc' = "after_try" /\ outcome' = "none"
       ELSE pc' = "done" /\ outcome' = exc
    /\ UNCHANGED <<other, hist, build, conv, lex, tree, tokens, partial>>

\* the activation goes on with its index advanced
advance(c, n, args) ==
    /\ cli' = c
    /\ stack' = [stack EXCEPT ![Len(stack)].i = @ + n,
                              ![Len(stack)].argnum = @ + args]
    /\ UNCHANGED <<other, hist, build, conv, lex, tree, pc, tokens, partial, outcome, calls>>

\* "i += self.parse_option(cli, t[2:], tokens[i:], long=True)" and its
\* short twin, in a group or a command
scan_option(long) ==
    /\ IF long THEN startswith(cur(top), <<"-", "-">>)
       ELSE ~startswith(cur(top), <<"-", "-">>) /\ startswith(cur(top), <<"-">>)
    /\ LET r == parse_option(tree, top.node, cli,
                             slice_from(cur(top), IF long THEN 2 ELSE 1),
                             slice_from(frame_tokens(top), top.i), long)
       IN  IF r.exc # "none" THEN raise(r.exc, r.cli, r.calls)
           ELSE advance(r.cli, r.consumed, 0)

\* is_option that takes "-" and a digit for the start of a number
is_option_no_digit(t) ==
    startswith(t, <<"-">>) /\ ~(Len(t) >= 2 /\ t[2] \in DigitChars)

\* "t.startswith("--")" or "t.startswith("-")": the token goes to parse_option
is_option(t) == startswith(t, <<"-">>)

\* a callee is entered with the tokens after its name
enter(c, id) ==
    /\ cli' = c
    /\ stack' = Append(stack, [node |-> id, start |-> top.start + top.i + 1,
                               i |-> 0, argnum |-> 0])
    /\ UNCHANGED <<other, hist, build, conv, lex, tree, pc, tokens, partial, outcome, calls>>

\* the first lines of GroupType._parse
group_entry(tr, id, c) == set_defaults(tr, id, set_group(c, id))

\* the first lines of CommandType._parse
command_entry(tr, id, c) ==
    LET r == set_defaults(tr, id, c)
    IN  IF r.exc # "none" THEN r
        ELSE [cli |-> set_command(r.cli, id, tr[id].ctx), exc |-> "none"]

\* Parse that goes on with the Result of the call before
Parse_keep_result(cmdline, p) ==
    /\ pc = "idle"
    /\ tokens' = cmdline
    /\ partial' = p
    /\ LET r == group_entry(tree, "root", cli)
       IN  /\ cli' = r.cli
           /\ IF r.exc # "none"
              THEN pc' = "done" /\ outcome' = r.exc /\ stack' = <<>>
              ELSE /\ pc' = "scan"
                   /\ outcome' = "none"
                   /\ stack' = <<[node |-> "root", start |-> 0, i |-> 0,
                                  argnum |-> 0]>>
    /\ UNCHANGED <<other, hist, build, conv, lex, tree, calls>>

\* MultiLevelArgParse.parse, a token list given: a fresh CliResult, and the
\* root group's _parse is entered
Parse(cmdline, p) ==
    /\ pc = "idle"
    /\ tokens' = cmdline
    /\ partial' = p
    /\ LET r == group_entry(tree, "root", CliResult)
       IN  /\ cli' = r.cli
           /\ IF r.exc # "none"
              THEN pc' = "done" /\ outcome' = r.exc /\ stack' = <<>>
              ELSE /\ pc' = "scan"
                   /\ outcome' = "none"
                   /\ stack' = <<[node |-> "root", start |-> 0, i |-> 0,
                                  argnum |-> 0]>>
    /\ UNCHANGED <<other, hist, build, conv, lex, tree, calls>>

GroupLongOption ==
    /\ scanning("group")
    /\ scan_option(TRUE)

GroupShortOption ==
    /\ scanning("group")
    /\ scan_option(FALSE)

\* "elif t in self.groups: i += self.groups[t]._parse(cli, tokens[i + 1:])"
GroupEnterGroup ==
    /\ scanning("group")
    /\ ~is_option(cur(top))
    /\ child(tree, tree[top.node].groups, cur(top)) # NoNode
    /\ LET id == child(tree, tree[top.node].groups, cur(top))
           r == group_entry(tree, id, cli)
       IN  IF r.exc # "none" THEN raise(r.exc, r.cli, <<>>) ELSE enter(r.cli, id)

\* "elif t in self.commands: i += self.commands[t]._parse(cli, tokens[i + 1:])"
GroupEnterCommand ==
    /\ scanning("group")
    /\ ~is_option(cur(top))
    /\ child(tree, tree[top.node].groups, cur(top)) = NoNode
    /\ child(tree, tree[top.node].commands, cur(top)) # NoNode
    /\ LET id == child(tree, tree[top.node].commands, cur(top))
           r == command_entry(tree, id, cli)
       IN  IF r.exc # "none" THEN raise(r.exc, r.cli, <<>>) ELSE enter(r.cli, id)

\* unparsed_from without the unknown token itself: tokens[i + 1:]
unparsed_from_after(f) == slice_from(frame_tokens(f), f.i + 1)

\* unparsed_from that forgets the index: the whole list of the activation
unparsed_from_start(f) == frame_tokens(f)

\* the tokens an unknown token leaves unparsed: tokens[i:]
unparsed_from(f) == slice_from(frame_tokens(f), f.i)

\* "else: cli.set_unparsed_tokens(tokens[i:]); raise UnknownToken"
GroupUnknownToken ==
    /\ scanning("group")
    /\ ~is_option(cur(top))
    /\ child(tree, tree[top.node].groups, cur(top)) = NoNode
    /\ child(tree, tree[top.node].commands, cur(top)) = NoNode
    /\ raise("UnknownToken", set_unparsed_tokens(cli, unparsed_from(top)), <<>>)

\* return whose value the caller does not add to its index
return_no_advance(n) ==
    /\ IF Len(stack) = 1
       THEN pc' = "after_try" /\ stack' = <<>>
       ELSE /\ pc' = pc
            /\ stack' = SubSeq(stack, 1, Len(stack) - 1)
    /\ UNCHANGED <<other, hist, build, conv, lex, tree, tokens, partial, cli, outcome, calls>>

\* "return 1 + i" seen from the caller: "i += ..._parse(...)"; the root's
\* return ends the try block of parse()
return(n) ==
    /\ IF Len(stack) = 1
       THEN pc' = "after_try" /\ stack' = <<>>
       ELSE /\ pc' = pc
            /\ stack' = [SubSeq(stack, 1, Len(stack) - 1)
                            EXCEPT ![Len(stack) - 1].i = @ + n]
    /\ UNCHANGED <<other, hist, build, conv, lex, tree, tokens, partial, cli, outcome, calls>>

GroupReturn ==
    /\ pc = "scan"
    /\ tree[top.node].kind = "group"
    /\ top.i >= Len(frame_tokens(top))
    /\ return(1 + top.i)

CommandLongOption ==
    /\ scanning("command")
    /\ scan_option(TRUE)

CommandShortOption ==
    /\ scanning("command")
    /\ scan_option(FALSE)

\* has_unbound with the last argument never asked for
has_unbound_off_by_one(tr, id, argnum) == argnum + 1 < Len(tr[id].arguments)

\* whether the command still has an argument to bind the token to
has_unbound(tr, id, argnum) == argnum < Len(tr[id].arguments)

\* "elif argnum < len(self.__arguments): consumed += arg._parse(cli, t)"
CommandArgument ==
    /\ scanning("command")
    /\ ~is_option(cur(top))
    /\ has_unbound(tree, top.node, top.argnum)
    /\ LET r == ArgType_parse(tree, tree[top.node].arguments[top.argnum + 1],
                              cli, cur(top))
       IN  IF r.exc # "none" THEN raise(r.exc, r.cli, <<>>)
           ELSE advance(r.cli, r.consumed, 1)

CommandUnknownToken ==
    /\ scanning("command")
    /\ ~is_option(cur(top))
    /\ ~has_unbound(tree, top.node, top.argnum)
    /\ raise("UnknownToken", set_unparsed_tokens(cli, unparsed_from(top)), <<>>)

\* the end of the scan: "if argnum < len(self.__arguments): raise
\* CommandMissingArguments", else "return 1 + i"
CommandReturn ==
    /\ pc = "scan"
    /\ tree[top.node].kind = "command"
    /\ top.i >= Len(frame_tokens(top))
    /\ IF has_unbound(tree, top.node, top.argnum)
       THEN raise("CommandMissingArguments", cli, <<>>)
       ELSE return(1 + top.i)

\* calls_defaultfn without the test for a matched command
calls_defaultfn_always(tr, c) == tr[c.group].defaultfn # "None"

\* calls_defaultfn that lets a partial parse with unparsed tokens return
calls_defaultfn_not_partial(tr, c) ==
    c.command = NoNode /\ tr[c.group].defaultfn # "None" /\ c.left_tokens = <<>>

\* whether parse() calls the no-command handler of the last group
calls_defaultfn(tr, c) ==
    c.command = NoNode /\ tr[c.group].defaultfn # "None"

\* the lines of parse() after the try block
ParseFinish ==
    /\ pc = "after_try"
    /\ pc' = "done"
    /\ IF calls_defaultfn(tree, cli)
       THEN /\ calls' = Append(calls, [kind |-> "defaultfn",
                                       fn |-> Resolve(tree[cli.group].defaultfn),
                                       node |-> cli.group])
            /\ outcome' = HandlerRaises(tree[cli.group].defaultfn)
       ELSE /\ calls' = calls
            /\ outcome' = "Result"
    /\ UNCHANGED <<other, hist, build, conv, lex, tree, tokens, partial, stack, cli>>

Init ==
    /\ tree = DemoTree
    /\ pc = "idle"
    /\ tokens = <<>>
    /\ partial = FALSE
    /\ stack = <<>>
    /\ cli = CliResult
    /\ outcome = "none"
    /\ calls = <<>>
    /\ lex = [s |-> <<>>, st |-> tokenize_start, pc |-> "idle"]
    /\ conv = conv_idle
    /\ build = build_idle
    /\ other = <<>>
    /\ hist = hist_idle

\* a caller calls parse() with some token list, partial or not
ParseCall ==
    /\ pc = "idle"
    /\ \E cmdline \in TokenLists, p \in BOOLEAN : Parse(cmdline, p)

Next ==
    \/ ParseCall
    \/ GroupLongOption
    \/ GroupShortOption
    \/ GroupEnterGroup
    \/ GroupEnterCommand
    \/ GroupUnknownToken
    \/ GroupReturn
    \/ CommandLongOption
    \/ CommandShortOption
    \/ CommandArgument
    \/ CommandUnknownToken
    \/ CommandReturn
    \/ ParseFinish

Spec == Init /\ [][Next]_vars

-----------------------------------------------------------------------------
(* A call of tokenize(s) with the default separators, one loop pass per    *)
(* step; the characters of s are chosen as the loop reads them.            *)

\* the characters a command line is made of
Chars == {"a", " ", "[", "]", "{", "}", "'", "\"", "\\"}

parser_idle ==
    /\ tree = DemoTree
    /\ pc = "idle"
    /\ tokens = <<>>
    /\ partial = FALSE
    /\ stack = <<>>
    /\ cli = CliResult
    /\ outcome = "none"
    /\ calls = <<>>

TokenizeInit ==
    /\ parser_idle
    /\ conv = conv_idle
    /\ build = build_idle
    /\ other = <<>>
    /\ hist = hist_idle
    /\ lex = [s |-> <<>>, st |-> tokenize_start, pc |-> "loop"]

\* the loop reads one more character
TokenizeChar ==
    /\ lex.pc = "loop"
    /\ Len(lex.s) < MaxChars
    /\ \E c \in Chars :
        lex' = [lex EXCEPT !.s = Append(@, c), !.st = tokenize_char(@, c, {})]
    /\ UNCHANGED <<other, hist, build, conv, tree, pc, tokens, partial, stack, cli, outcome, calls>>

\* the input ends: the buffer is flushed, then tokenize raises or returns
TokenizeEnd ==
    /\ lex.pc = "loop"
    /\ lex' = [lex EXCEPT
                !.st.tokens = tokenize_end(lex.st).tokens,
                !.pc = IF tokenize_end(lex.st).exc = "none" THEN "returned"
                       ELSE "raised"]
    /\ UNCHANGED <<other, hist, build, conv, tree, pc, tokens, partial, stack, cli, outcome, calls>>

TokenizeNext ==
    \/ TokenizeChar
    \/ TokenizeEnd

TokenizeSpec == TokenizeInit /\ [][TokenizeNext]_vars

-----------------------------------------------------------------------------
(* A value token handed to an argument or an option of a declared type:    *)
(* add_argument("x", type=decl) or add_option("x", type=decl), then the    *)
(* _parse of the object on the token.                                      *)

t_x == <<"x">>

RECURSIVE join(_, _)
join(items, sep) ==
    IF items = <<>> THEN <<>>
    ELSE IF Len(items) = 1 THEN items[1]
    ELSE items[1] \o sep \o join(Tail(items), sep)

\* the literals of at most MaxItems items out of a set, between two marks
literals(open, items, close) ==
    {<<open>> \o join(sq, <<",">>) \o <<close>> :
        sq \in UNION {[1..m -> items] : m \in 0..MaxItems}}

pair(k, v) == <<k, "=">> \o v

\* scalar texts: 1, 23, x, 'a,b', 'a=b', " 7"
Scalars ==
    {<<"1">>, <<"2", "3">>, <<"x">>, <<"'", "a", ",", "b", "'">>,
     <<"'", "a", "=", "b", "'">>, <<" ", "7">>}

\* [], [1], [1,23], [x]
InnerLists ==
    {<<"[", "]">>, <<"[", "1", "]">>, <<"[", "1", ",", "2", "3", "]">>,
     <<"[", "x", "]">>}

\* key=value pieces: declared keys k, j, l, the undeclared key z, a piece
\* without '=' and a piece with two
Pairs ==
    {pair("k", v) : v \in {<<"1">>, <<"x">>}}
        \cup {pair("j", v) : v \in {<<"x">>, <<"'", "a", ",", "b", "'">>,
                                    <<"'", "a", "=", "b", "'">>}}
        \cup {pair("l", v) : v \in InnerLists}
        \cup {pair("z", <<"1">>), <<"k">>, <<"k", "=", "1", "=", "2", "3">>}

\* {}, {k=1}, {z=1}, {l=[1,23]}, {l=[x]}, {k=1,l=[1,23]}, {k}
InnerStructs ==
    {<<"{", "}">>,
     <<"{">> \o pair("k", <<"1">>) \o <<"}">>,
     <<"{">> \o pair("z", <<"1">>) \o <<"}">>,
     <<"{">> \o pair("l", <<"[", "1", ",", "2", "3", "]">>) \o <<"}">>,
     <<"{">> \o pair("l", <<"[", "x", "]">>) \o <<"}">>,
     <<"{">> \o pair("k", <<"1">>) \o <<",">>
            \o pair("l", <<"[", "1", ",", "2", "3", "]">>) \o <<"}">>,
     <<"{", "k", "}">>}

WellFormed ==
    Scalars \cup literals("[", Scalars, "]") \cup literals("{", Pairs, "}")
            \cup literals("[", InnerLists, "]")
            \cup literals("[", InnerStructs, "]")

\* the value tokens: the literals, whole or short of their first or last
\* character
ValueTokens ==
    WellFormed \cup {Tail(t) : t \in WellFormed}
               \cup {SubSeq(t, 1, Len(t) - 1) : t \in WellFormed}

\* dict(k=int, j=str, l=[int])
t_struct ==
    PyDict(<<"k">> :> PyType("int") @@ <<"j">> :> PyType("str")
            @@ <<"l">> :> PyList(PyType("int")))

\* int, str, [int], [str], [[int]], the struct, [the struct]
Decls ==
    {PyType("int"), PyType("str"), PyList(PyType("int")), PyList(PyType("str")),
     PyList(PyList(PyType("int"))), t_struct, PyList(t_struct)}

ConvInit ==
    /\ parser_idle
    /\ build = build_idle
    /\ other = <<>>
    /\ hist = hist_idle
    /\ lex = [s |-> <<>>, st |-> tokenize_start, pc |-> "idle"]
    /\ conv \in {[decl |-> d, token |-> t, pc |-> "call", caller |-> "none",
                  exc |-> "none", val |-> NoneV] : d \in Decls, t \in ValueTokens}

\* CommandType._add_argument: the object add_argument makes of a type
argument_object(name, decl) ==
    IF decl.cls = "list" THEN ListType(name, decl)
    ELSE IF decl.cls = "dict" THEN StructType(name, decl)
    ELSE [decl EXCEPT !.name = name]

\* arg._parse(cli, t) in CommandType._parse: [exc, val], val the value
\* bound to the argument
argument_parse(arg, t) ==
    IF is_ArgType(arg)
    THEN LET r == Type_parse(arg, t)
         IN  IF r.exc # "none" THEN r
             ELSE [exc |-> "none", val |-> nested_value(arg, r.val)]
    ELSE LET v == Construct(arg.cls, strip(t))
         IN  IF v.ok THEN [exc |-> "none", val |-> v.val]
             ELSE [exc |-> "ArgumentTypeError", val |-> NoneV]

\* OptionType._parse on the token after the option: [exc, val]
option_parse(argtype, t) ==
    IF is_ArgType(argtype)
    THEN LET r == Type_parse(argtype, t)
         IN  IF r.exc # "none" THEN r
             ELSE [exc |-> "none", val |-> nested_value(argtype, r.val)]
    ELSE LET v == Construct(argtype.cls, strip(t))
         IN  IF v.ok THEN [exc |-> "none", val |-> v.val]
             ELSE [exc |-> "ValueError", val |-> NoneV]

\* the token is bound to an argument declared with the type
ArgumentParse ==
    /\ conv.pc = "call"
    /\ LET r == argument_parse(argument_object(t_x, conv.decl), conv.token)
       IN  conv' = [conv EXCEPT !.pc = "done", !.caller = "argument",
                                !.exc = r.exc, !.val = r.val]
    /\ UNCHANGED <<other, hist, build, lex, tree, pc, tokens, partial, stack, cli, outcome, calls>>

\* the token follows an option declared with the type
OptionParse ==
    /\ conv.pc = "call"
    /\ LET r == option_parse(nested_type(t_x, conv.decl), conv.token)
       IN  conv' = [conv EXCEPT !.pc = "done", !.caller = "option",
                                !.exc = r.exc, !.val = r.val]
    /\ UNCHANGED <<other, hist, build, lex, tree, pc, tokens, partial, stack, cli, outcome, calls>>

ConvNext ==
    \/ ArgumentParse
    \/ OptionParse

ConvSpec == ConvInit /\ [][ConvNext]_vars

-----------------------------------------------------------------------------
(* The builder: add_group, add_command and add_option calls on the groups   *)
(* and commands of a fresh MultiLevelArgParse()                            *)

t_a == <<"a">>

\* names of new groups and commands; the second is the name of the root
ChildNames == {t_a, <<"p", "r", "o", "g">>}

ShortNames == {<<>>, t_a, <<"h">>}

LongNames == {<<>>, t_a}

\* the object the n-th call makes
new_id(n) == "n" \o ToString(n)

BuildInit ==
    /\ tree = MultiLevelArgParse("None", "None")
    /\ pc = "idle"
    /\ tokens = <<>>
    /\ partial = FALSE
    /\ stack = <<>>
    /\ cli = CliResult
    /\ outcome = "none"
    /\ calls = <<>>
    /\ lex = [s |-> <<>>, st |-> tokenize_start, pc |-> "idle"]
    /\ conv = conv_idle
    /\ build = build_idle
    /\ other = <<>>
    /\ hist = hist_idle

\* the call is made: AssertionError if an assertion failed
builder_call(op, target, name, short, long, t1, exc, ret) ==
    /\ tree' = t1
    /\ build' = [n |-> build.n + 1, op |-> op, target |-> target, name |-> name,
                 short |-> short, long |-> long, exc |-> exc,
                 ret |-> IF exc = "none" THEN ret ELSE ReturnsNone]
    /\ UNCHANGED <<pc, tokens, partial, stack, cli, outcome, calls, lex, conv,
                   other, hist>>

\* g.add_group(name)
AddGroup ==
    /\ build.n < MaxCalls
    /\ \E g \in {x \in DOMAIN tree : tree[x].kind = "group"}, name \in ChildNames :
        LET t1 == add_group(tree, g, new_id(build.n + 1), name,
                            "usage_and_exit", "_defhelpfn")
        IN  builder_call("add_group", g, name, <<>>, <<>>, t1,
                         IF t1 = tree THEN "AssertionError" ELSE "none",
                         [kind |-> "GroupType", opt |-> <<>>])

\* g.add_command(name)
AddCommand ==
    /\ build.n < MaxCalls
    /\ \E g \in {x \in DOMAIN tree : tree[x].kind = "group"}, name \in ChildNames :
        LET t1 == add_command(tree, g, new_id(build.n + 1), name, "_defhelpfn", NoneV)
        IN  builder_call("add_command", g, name, <<>>, <<>>, t1,
                         IF t1 = tree THEN "AssertionError" ELSE "none",
                         [kind |-> "CommandType", opt |-> <<>>])

\* x.add_option(short, long) on a group or a command
AddOption ==
    /\ build.n < MaxCalls
    /\ \E x \in DOMAIN tree, short \in ShortNames, long \in LongNames :
        IF tree[x].kind = "group"
        THEN LET r == GroupType_add_option(tree, x, short, long, <<>>, "None", NoneV)
             IN  builder_call("add_option", x, <<>>, short, long, r.tree, r.exc,
                              r.ret)
        ELSE LET t1 == add_option(tree, x, short, long, <<>>, "None", NoneV)
             IN  builder_call("add_option", x, <<>>, short, long, t1,
                              IF t1 = tree THEN "AssertionError" ELSE "none",
                              add_option_return(x, short, long, <<>>, "None", NoneV))

BuildNext ==
    \/ AddGroup
    \/ AddCommand
    \/ AddOption

BuildSpec == BuildInit /\ [][BuildNext]_vars

-----------------------------------------------------------------------------
(* Several parse() calls on one parser: one after the other, and two        *)
(* running interleaved.  A call's cmdline, partial, cli, tokens and i are   *)
(* locals of its activations; the parser object is all the calls share.     *)

t_ab == <<"a", "b">>

t_7 == <<"7">>

t_minus9 == <<"-", "9">>

t_dashhelp == <<"-", "-", "h", "e", "l", "p">>

\* the calls made: parse(cmdline, partial)
CmdCalls ==
    {[cmdline |-> l, partial |-> FALSE] :
        l \in {<<>>, <<t_new, t_7>>, <<t_dashhelp>>, <<t_class, t_new, t_ab, t_7>>,
               <<<<"-", "t">>, t_7, t_class>>, <<t_beta, t_new>>,
               <<t_new, t_7, t_ab>>, <<t_new, t_minus9>>,
               <<t_new, <<"-", "t">>, t_minus9, t_7>>, <<t_ab>>,
               <<t_new, t_dashhelp>>}}
    \cup {[cmdline |-> l, partial |-> TRUE] :
        l \in {<<t_new, t_7>>, <<t_new, t_7, t_ab>>, <<t_ab>>}}

\* most parse() calls made one after the other
MaxParses == 3

\* the locals of the running parse() call
context ==
    [pc |-> pc, tokens |-> tokens, partial |-> partial, stack |-> stack,
     cli |-> cli, outcome |-> outcome, calls |-> calls]

\* a call not made yet
context_idle ==
    [pc |-> "idle", tokens |-> <<>>, partial |-> FALSE, stack |-> <<>>,
     cli |-> CliResult, outcome |-> "none", calls |-> <<>>]

\* resumed_cli of a parser that keeps one Result for all its calls
resumed_cli_shared(ctx) == cli

\* "cli = CliResult()" is a local of parse(): the call that is resumed goes
\* on with its own Result
resumed_cli(ctx) == ctx.cli

\* what a call was handed and how it ended
run_of(ctx) ==
    [tokens |-> ctx.tokens, partial |-> ctx.partial, outcome |-> ctx.outcome,
     cli |-> ctx.cli, calls |-> ctx.calls]

\* parse(cmdline, partial) is called
ParseCmd ==
    /\ pc = "idle"
    /\ \E c \in CmdCalls : Parse(c.cmdline, c.partial)

\* parse() has returned or raised and the caller goes on to its next call;
\* two interleaved calls are made once a first call has ended alone
ParseReturn ==
    /\ pc = "done"
    /\ IF other = <<>> THEN hist.n + 1 < MaxParses ELSE hist.n = 0
    /\ pc' = "idle"
    /\ calls' = <<>>
    /\ hist' = [n |-> hist.n + 1,
                first |-> IF hist.first = <<>> THEN <<run_of(context)>>
                          ELSE hist.first]
    /\ UNCHANGED <<other, build, conv, lex, tree, tokens, partial, stack, cli,
                   outcome>>

\* the scheduler suspends the running call and resumes the other one
Switch ==
    /\ other # <<>>
    /\ hist.n >= 1
    /\ other' = <<context>>
    /\ pc' = other[1].pc
    /\ tokens' = other[1].tokens
    /\ partial' = other[1].partial
    /\ stack' = other[1].stack
    /\ cli' = resumed_cli(other[1])
    /\ outcome' = other[1].outcome
    /\ calls' = other[1].calls
    /\ UNCHANGED <<hist, build, conv, lex, tree>>

\* a step of the running parse() call
ParseStep ==
    \/ GroupLongOption
    \/ GroupShortOption
    \/ GroupEnterGroup
    \/ GroupEnterCommand
    \/ GroupUnknownToken
    \/ GroupReturn
    \/ CommandLongOption
    \/ CommandShortOption
    \/ CommandArgument
    \/ CommandUnknownToken
    \/ CommandReturn
    \/ ParseFinish

SeqNext ==
    \/ ParseCmd
    \/ ParseStep
    \/ ParseReturn

SeqSpec == Init /\ [][SeqNext]_vars

ConcInit ==
    /\ parser_idle
    /\ lex = [s |-> <<>>, st |-> tokenize_start, pc |-> "idle"]
    /\ conv = conv_idle
    /\ build = build_idle
    /\ other = <<context_idle>>
    /\ hist = hist_idle

ConcNext ==
    \/ ParseCmd
    \/ ParseStep
    \/ ParseReturn
    \/ Switch

ConcSpec == ConcInit /\ [][ConcNext]_vars

-----------------------------------------------------------------------------
(* Vocabulary of the properties *)

t_help == <<"h", "e", "l", "p">>

\* the deepest owner the parse has entered
last_node == IF cli.command # NoNode THEN cli.command ELSE cli.group

RECURSIVE ancestor_at(_, _)
ancestor_at(id, L) ==
    IF tree[id].level <= L THEN id ELSE ancestor_at(tree[id].parent, L)

\* the owner entered at level L
owner_at(L) == ancestor_at(last_node, L)

\* the options declared on an owner, under a short or a long name
declared(id) ==
    {tree[id].options[k] : k \in 1..Len(tree[id].options)}
        \cup {tree[id].longoptions[k] : k \in 1..Len(tree[id].longoptions)}

\* the options the owner declares under the name an option token gives
named_by(id, t) ==
    IF startswith(t, <<"-", "-">>)
    THEN {o \in declared(id) : o.long # <<>> /\ o.long = slice_from(t, 2)}
    ELSE {o \in declared(id) : o.short # <<>> /\ o.short = slice_from(t, 1)}

\* the activation is about to scan a token
at_token == pc = "scan" /\ top.i < Len(frame_tokens(top))

\* the activation of a kind of owner has no token left to scan
scan_ended(kind) ==
    pc = "scan" /\ tree[top.node].kind = kind /\ top.i >= Len(frame_tokens(top))

\* the position in the whole input of the token being scanned
position == top.start + top.i + 1

arg_names(id) == {tree[id].arguments[k].name : k \in 1..Len(tree[id].arguments)}

\* parse() got past its try block and ended there, by a return or in a
\* no-command handler
finished ==
    /\ pc = "done"
    /\ \/ outcome = "Result"
       \/ calls # <<>> /\ calls[Len(calls)].kind = "defaultfn"

defaultfn_calls == {k \in 1..Len(calls) : calls[k].kind = "defaultfn"}

-----------------------------------------------------------------------------
(* C1..C10: command completeness, defaults, options, help, no-command *)

\* C1: a command whose scan ends with fewer bound arguments than declared
\* raises CommandMissingArguments and fills nothing in; each binding step
\* binds the token scanned to the next declared argument; a scan that ends
\* with all n bound returns, and the Result's args hold exactly the n
\* declared names.
C1_CommandCompleteness ==
    [][/\ (scan_ended("command") /\ top.argnum < Len(tree[top.node].arguments))
            => /\ pc' = "done"
               /\ outcome' = "CommandMissingArguments"
               /\ cli' = cli
       /\ (scan_ended("command") /\ top.argnum >= Len(tree[top.node].arguments))
            => outcome' = "none" /\ pc' \in {"scan", "after_try"} /\ cli' = cli
       /\ (pc = "scan" /\ Len(cli'.command_arguments) > Len(cli.command_arguments))
            => LET k == Len(cli.command_arguments) + 1
                   arg == tree[top.node].arguments[k]
               IN  /\ ~is_option(cur(top))
                   /\ k = top.argnum + 1
                   /\ cli'.command_arguments = Append(cli.command_arguments, arg)
                   /\ DOMAIN cli'.args_ns = DOMAIN cli.args_ns \cup {arg.name}
                   /\ cli'.args_ns[arg.name]
                        = Construct(arg.argtype, strip(tokens[position])).val
                   /\ stack'[Len(stack)].i = top.i + 1
       /\ (outcome' = "Result" /\ cli'.command # NoNode /\ cli'.left_tokens = <<>>)
            => /\ cli'.command_arguments = tree[cli'.command].arguments
               /\ DOMAIN cli'.args_ns = arg_names(cli'.command)
      ]_vars

\* "class new ab 7" returned with name = "ab" and size = 7
C1_Witness ==
    /\ outcome = "Result"
    /\ cli.command = "class_new"
    /\ Len(cli.command_arguments) = 2
    /\ cli.args_ns[<<"n", "a", "m", "e">>] = StrV(<<"a", "b">>)
    /\ cli.args_ns[<<"s", "i", "z", "e">>] = IntV(7)

\* C2: with every declared argument bound, a token not starting with "-"
\* is unknown: not partial, parse raises UnknownToken; partial, it returns
\* the Result as built so far with that token and all later tokens unparsed.
C2_ExtraToken ==
    [][/\ (/\ at_token
           /\ tree[top.node].kind = "command"
           /\ ~is_option(cur(top))
           /\ top.argnum = Len(tree[top.node].arguments))
            => /\ cli' = [cli EXCEPT !.left_tokens =
                                SubSeq(tokens, position, Len(tokens))]
               /\ IF partial THEN pc' = "after_try" /\ outcome' = "none"
                  ELSE pc' = "done" /\ outcome' = "UnknownToken"
       /\ (pc = "after_try" /\ cli.command # NoNode)
            => outcome' = "Result" /\ pc' = "done" /\ cli' = cli
      ]_vars

\* "new -l 7 ab 7"-like input: partial, the command, its argument and the
\* two trailing tokens are in the Result
C2_Witness ==
    /\ outcome = "Result"
    /\ partial
    /\ cli.command = "new"
    /\ cli.args_ns = (<<"s", "i", "z", "e">> :> IntV(7))
    /\ cli.left_tokens = <<<<"a", "b">>, <<"7">>>>

\* C3 as stated: once an owner is entered, each option declared on it has
\* an entry in the level's namespace and in the unified namespace (its
\* default, False for a flag, or the value set since).
C3_Claim ==
    pc # "idle" =>
        \A L \in 0..cli.max_level : \A o \in declared(owner_at(L)) :
            /\ o.name \in DOMAIN cli_ns(cli, L)
            /\ (full_name(tree, owner_at(L), <<".">>, TRUE) \o o.name)
                    \in DOMAIN cli.ns

\* C4: a mentioned flag consumes its own token alone and ends as the
\* negation of its declared default in both namespaces, however often it
\* was mentioned before.
C4_FlagNegatesDefault ==
    [][(at_token /\ is_option(cur(top)) /\ named_by(top.node, cur(top)) # {})
        => \A o \in named_by(top.node, cur(top)) :
            o.argtype = "None" =>
              /\ cli'.levels_ns[tree[top.node].level + 1][o.name] = Not(o.default)
              /\ cli'.ns[full_name(tree, top.node, <<".">>, TRUE) \o o.name]
                    = Not(o.default)
              /\ pc' = "scan" => stack'[Len(stack)].i = top.i + 1
      ]_vars

\* "class -t -t": the flag was mentioned twice and reads True
C4_Witness ==
    /\ pc = "scan"
    /\ top.node = "class"
    /\ top.i = 2
    /\ tokens[2] = <<"-", "t">>
    /\ tokens[3] = <<"-", "t">>
    /\ cli.levels_ns[2][<<"t", "r", "i", "m">>] = BoolV(TRUE)
    /\ cli.ns[t_class \o <<".">> \o <<"t", "r", "i", "m">>] = BoolV(TRUE)

\* C5 as stated: a typed option followed by a token consumes the two; a
\* typed option that is the last token fails with OptionNoParam.
C5_Claim ==
    [][(at_token /\ is_option(cur(top)))
        => \A o \in named_by(top.node, cur(top)) :
            o.argtype # "None" =>
              IF top.i + 1 < Len(frame_tokens(top))
              THEN pc' = "scan" => stack'[Len(stack)].i = top.i + 2
              ELSE pc' = "done" /\ outcome' = "OptionNoParam"
      ]_vars

\* C6: an option token the owner being scanned does not declare raises
\* OptionNotFound, whatever its ancestors declare; an owner without a help
\* handler declares no help option, so "--help" and "-h" raise there too.
C6_OptionOfOwnerOnly ==
    [][/\ (at_token /\ is_option(cur(top)) /\ named_by(top.node, cur(top)) = {})
            => pc' = "done" /\ outcome' = "OptionNotFound" /\ cli' = cli
       /\ (at_token /\ tree[top.node].helpfn = "None"
                    /\ cur(top) \in {<<"-", "h">>, <<"-", "-">> \o t_help})
            => pc' = "done" /\ outcome' = "OptionNotFound"
      ]_vars

\* "beta -t": the root declares -t, the group beta does not
C6_Witness ==
    /\ outcome = "OptionNotFound"
    /\ cli.group = "beta"
    /\ tokens = <<t_beta, <<"-", "t">>>>
    /\ named_by("root", <<"-", "t">>) # {}

\* C7: in no state is the help slot of an owner with a help handler true
\* and the parse still running: the parse has ended in that handler's
\* exception, the handler of that owner is the only one invoked, and
\* nothing deeper was entered.
C7_HelpShortCircuit ==
    pc # "idle" =>
        \A L \in 0..cli.max_level :
            (/\ tree[owner_at(L)].helpfn # "None"
             /\ Truthy(ns_getitem(cli_ns(cli, L), t_help)))
            => /\ pc = "done"
               /\ outcome = HandlerRaises(tree[owner_at(L)].helpfn)
               /\ calls = <<[kind |-> "helpfn",
                             fn |-> Resolve(tree[owner_at(L)].helpfn),
                             node |-> owner_at(L)]>>
               /\ owner_at(L) = last_node

\* "class new ab --help": help on a command that lacks an argument
C7_Witness ==
    /\ outcome = "HelpRquired"
    /\ cli.command = "class_new"
    /\ Len(cli.command_arguments) = 1
    /\ calls = <<[kind |-> "helpfn", fn |-> "usage_and_raise_help",
                  node |-> "class_new"]>>

\* the groups from the root down to the last group visited
RECURSIVE groups_to(_)
groups_to(g) ==
    IF g = NoNode THEN {} ELSE {g} \cup groups_to(tree[g].parent)

\* C8 as stated: when the scan finishes with no command matched, every
\* group whose scan finished has its no-command handler invoked, if it
\* declares one.
C8_Claim ==
    (finished /\ cli.command = NoNode /\ cli.left_tokens = <<>>) =>
        \A g \in groups_to(cli.group) :
            tree[g].defaultfn # "None" =>
                \E k \in defaultfn_calls : calls[k].node = g

\* C8 amended: when the scan finishes with no command matched, the
\* no-command handler of the last group visited is invoked if that group
\* declares one, and no other group's; no no-command handler is ever
\* invoked when a command was matched.
C8_LastGroupHandler ==
    /\ (finished /\ cli.command = NoNode /\ cli.left_tokens = <<>>) =>
            {calls[k].node : k \in defaultfn_calls}
                = IF tree[cli.group].defaultfn # "None" THEN {cli.group} ELSE {}
    /\ cli.command # NoNode => defaultfn_calls = {}
    /\ Cardinality(defaultfn_calls) <= 1

\* "class": the handler of class is invoked, the root's is not
C8_Witness ==
    /\ finished
    /\ tokens = <<t_class>>
    /\ calls = <<[kind |-> "defaultfn", fn |-> "usage_and_raise_no_command",
                  node |-> "class"]>>

-----------------------------------------------------------------------------
(* C11..C12: level isolation, the command of a Result *)

\* the keys two namespaces differ on
changed_keys(a, b) ==
    {k \in DOMAIN a \cup DOMAIN b :
        k \notin DOMAIN a \/ k \notin DOMAIN b \/ a[k] # b[k]}

\* the owner a step of the scan writes options of: the owner entered, else
\* the owner being scanned
written_owner ==
    IF Len(stack') > Len(stack) THEN stack'[Len(stack')].node ELSE top.node

\* C11: a step of the scan that sets or defaults options of an owner at
\* level L changes, of the level namespaces, only level L's and there only
\* target names of that owner, and of the unified namespace only keys made
\* of that owner's dotted path and one of its target names (or, when the
\* step binds an argument, one of its argument names); every other level's
\* namespace is left as it was.
C11_LevelIsolation ==
    [][pc = "scan" =>
        LET o == written_owner
            L == tree[o].level
            names == {x.name : x \in declared(o)}
        IN  /\ \A L2 \in 0..cli.max_level :
                    L2 # L => cli_ns(cli', L2) = cli_ns(cli, L2)
            /\ cli'.max_level >= L =>
                    changed_keys(IF L <= cli.max_level THEN cli_ns(cli, L)
                                 ELSE Namespace,
                                 cli_ns(cli', L)) \subseteq names
            /\ changed_keys(cli.ns, cli'.ns) \subseteq
                    {full_name(tree, o, <<".">>, TRUE) \o n :
                        n \in names \cup arg_names(o)}
      ]_vars

\* "class -t new": -t is declared by the root, by class and by class new,
\* help by all three; only the trim of class is set
C11_Witness ==
    /\ outcome = "CommandMissingArguments"
    /\ tokens = <<t_class, <<"-", "t">>, t_new>>
    /\ cli_ns(cli, 1)[<<"t", "r", "i", "m">>] = BoolV(TRUE)
    /\ cli_ns(cli, 0)[<<"l", "v", "l">>] = IntV(7)
    /\ cli_ns(cli, 2)[<<"t", "a", "g">>] = NoneV
    /\ \A L \in 0..2 : cli_ns(cli, L)[t_help] = BoolV(FALSE)

\* C12: a Result with a matched command holds that command's context, its
\* parent as the group, one level namespace per level down to the
\* command's, the command's level namespace as opt(); and once a command
\* is registered in a result no other one replaces it.
C12_CommandOfResult ==
    /\ [](outcome = "Result" /\ cli.command # NoNode =>
            /\ tree[cli.command].kind = "command"
            /\ cli.ctx = tree[cli.command].ctx
            /\ cli.group = tree[cli.command].parent
            /\ Len(cli.levels_ns) = tree[cli.command].level + 1
            /\ cli_opt(cli) = cli_ns(cli, tree[cli.command].level))
    /\ [][pc = "scan" /\ cli.command # NoNode => cli'.command = cli.command]_vars

\* "beta new": the command declared with ctx="context"
C12_Witness ==
    /\ outcome = "Result"
    /\ cli.command = "beta_new"
    /\ cli.ctx = StrV(t_context)
    /\ cli.group = "beta"
    /\ Len(cli.levels_ns) = 3

-----------------------------------------------------------------------------
(* C13..C15: the tokenizer *)

\* What is open after a string by the rules of grouping and quoting: every
\* '[' and '{' outside a quote opens a group, its own closing character
\* closes the innermost group, a quote character outside every group opens
\* a quote that the same character closes, and the character after a
\* backslash is an ordinary one.
RECURSIVE ref_scan(_)
ref_scan(s) ==
    IF s = <<>> THEN [open |-> <<>>, quote |-> "None", esc |-> FALSE]
    ELSE LET r == ref_scan(SubSeq(s, 1, Len(s) - 1))
             c == s[Len(s)]
         IN  IF r.esc THEN [r EXCEPT !.esc = FALSE]
             ELSE IF c = "\\" THEN [r EXCEPT !.esc = TRUE]
             ELSE IF r.quote # "None"
             THEN IF c = r.quote THEN [r EXCEPT !.quote = "None"] ELSE r
             ELSE IF c \in QuoteChars /\ r.open = <<>> THEN [r EXCEPT !.quote = c]
             ELSE IF c = "[" THEN [r EXCEPT !.open = Append(@, "]")]
             ELSE IF c = "{" THEN [r EXCEPT !.open = Append(@, "}")]
             ELSE IF r.open # <<>> /\ c = r.open[Len(r.open)]
             THEN [r EXCEPT !.open = SubSeq(@, 1, Len(@) - 1)]
             ELSE r

\* no group and no quote is open after the string
closed(s) == ref_scan(s).open = <<>> /\ ref_scan(s).quote = "None"

\* the characters of a string that are not whitespace, in order
nonws(s) == SelectSeq(s, LAMBDA c : c \notin SpaceChars)

RECURSIVE concat(_)
concat(ss) == IF ss = <<>> THEN <<>> ELSE Head(ss) \o concat(Tail(ss))

-----------------------------------------------------------------------------
(* C16: failed scalar conversions *)

\* the token being scanned is bound to a scalar argument whose type's
\* constructor raises on it
bad_argument_value ==
    /\ scanning("command")
    /\ ~is_option(cur(top))
    /\ top.argnum < Len(tree[top.node].arguments)
    /\ ~Construct(tree[top.node].arguments[top.argnum + 1].argtype,
                  strip(cur(top))).ok

\* the token being scanned names a scalar-typed option of the owner, and
\* the constructor of its type raises on the token that follows
bad_option_value ==
    /\ at_token
    /\ is_option(cur(top))
    /\ top.i + 1 < Len(frame_tokens(top))
    /\ \E o \in named_by(top.node, cur(top)) :
        /\ o.argtype # "None"
        /\ ~Construct(o.argtype, strip(frame_tokens(top)[top.i + 2])).ok

\* C16 as stated: a value token on which the constructor of a scalar type
\* raises, for an argument or for an option, ends the parse in
\* ArgumentTypeError and in no other exception.
C16_Claim ==
    [][(bad_argument_value \/ bad_option_value)
        => pc' = "done" /\ outcome' = "ArgumentTypeError"]_vars

-----------------------------------------------------------------------------
(* C17..C19: list and struct values *)

\* the positions of string s where character c stands outside every group
\* and quote
ref_cuts(s, c) ==
    {i \in 1..Len(s) :
        /\ s[i] = c
        /\ closed(SubSeq(s, 1, i - 1))
        /\ ~ref_scan(SubSeq(s, 1, i - 1)).esc}

RECURSIVE ref_pieces(_, _, _)
ref_pieces(s, c, from) ==
    LET later == {i \in ref_cuts(s, c) : i >= from}
    IN  IF later = {} THEN <<SubSeq(s, from, Len(s))>>
        ELSE LET i == CHOOSE x \in later : \A y \in later : x <= y
             IN  <<SubSeq(s, from, i - 1)>> \o ref_pieces(s, c, i + 1)

\* the pieces of s between such positions, without the blanks around them
\* and without the empty ones
ref_split(s, c) ==
    LET ps == ref_pieces(s, c, 1)
    IN  SelectSeq([k \in 1..Len(ps) |-> strip_ws(ps[k])], LAMBDA x : x # <<>>)

bracketed(a, open, close) == startswith(a, <<open>>) /\ endswith(a, <<close>>)

\* the first exception of a sequence of [exc, val] results, "none" if none
first_exc(rs) ==
    LET bad == {k \in 1..Len(rs) : rs[k].exc # "none"}
    IN  IF bad = {} THEN "none"
        ELSE rs[CHOOSE k \in bad : \A j \in bad : k <= j].exc

\* The value a token stands for under a declared type, or the error it is
\* refused with: a scalar is the constructor's value of the unquoted text;
\* a list literal is the sequence of the values of its pieces, a struct
\* literal the mapping of the keys of its key=value pieces to the values,
\* the first piece in error deciding the error.
RECURSIVE ref_parse(_, _)
ref_parse(decl, s) ==
    LET a == strip_ws(s)
    IN  CASE decl.cls \in {"int", "str"} ->
                LET v == Construct(decl.cls, strip(s))
                IN  IF v.ok THEN [exc |-> "none", val |-> v.val]
                    ELSE [exc |-> "ArgumentTypeError", val |-> NoneV]
          [] decl.cls = "list" ->
                IF ~bracketed(a, "[", "]")
                THEN [exc |-> "ArgumentTypeError", val |-> NoneV]
                ELSE IF ~closed(interior(a))
                THEN [exc |-> "ParseExecption", val |-> NoneV]
                ELSE LET ps == ref_split(interior(a), ",")
                         rs == [k \in 1..Len(ps) |-> ref_parse(decl.elem[1], ps[k])]
                     IN  IF first_exc(rs) # "none"
                         THEN [exc |-> first_exc(rs), val |-> NoneV]
                         ELSE [exc |-> "none",
                               val |-> ListV([k \in 1..Len(ps) |-> rs[k].val])]
          [] decl.cls = "dict" ->
                IF ~bracketed(a, "{", "}")
                THEN [exc |-> "ArgumentTypeError", val |-> NoneV]
                ELSE IF ~closed(interior(a))
                THEN [exc |-> "ParseExecption", val |-> NoneV]
                ELSE LET ps == ref_split(interior(a), ",")
                         kv(k) == ref_split(ps[k], "=")
                         key(k) == strip(kv(k)[1])
                         rs == [k \in 1..Len(ps) |->
                                  IF Len(kv(k)) # 2
                                  THEN [exc |-> "ArgumentTypeError", val |-> NoneV]
                                  ELSE IF key(k) \notin DOMAIN decl.fields
                                  THEN [exc |-> "ArgumentKeyError", val |-> NoneV]
                                  ELSE ref_parse(decl.fields[key(k)], kv(k)[2])]
                         last(x) == CHOOSE k \in 1..Len(ps) :
                                        /\ key(k) = x
                                        /\ \A j \in 1..Len(ps) : key(j) = x => j <= k
                     IN  IF first_exc(rs) # "none"
                         THEN [exc |-> first_exc(rs), val |-> NoneV]
                         ELSE [exc |-> "none",
                               val |-> NamespaceV(
                                   [x \in {key(k) : k \in 1..Len(ps)} |->
                                       rs[last(x)].val])]

\* the conversion ended as the token's meaning under the declared type says
as_ref ==
    LET r == ref_parse(conv.decl, conv.token)
    IN  conv.exc = r.exc /\ (r.exc = "none" => conv.val = r.val)

\* C17: a token handed to a list type that does not start with '[' and end
\* with ']' raises ArgumentTypeError; one that does, with an interior in
\* which nothing is left open, gives the sequence of the values of its
\* ','-separated pieces in input order ("[]" the empty sequence), or the
\* error of the first piece its element type refuses.
C17_ListParse ==
    (conv.pc = "done" /\ conv.decl.cls = "list") =>
        LET a == strip_ws(conv.token)
        IN  /\ ~bracketed(a, "[", "]") => conv.exc = "ArgumentTypeError"
            /\ (bracketed(a, "[", "]") /\ closed(interior(a))) => as_ref
            /\ a = <<"[", "]">> => conv.exc = "none" /\ conv.val = ListV(<<>>)

\* "[1,23]" for a list of int
C17_Witness ==
    /\ conv.pc = "done"
    /\ conv.decl = PyList(PyType("int"))
    /\ conv.token = <<"[", "1", ",", "2", "3", "]">>
    /\ conv.val = ListV(<<IntV(1), IntV(23)>>)

\* C18: a struct literal gives a mapping of exactly the keys it supplies,
\* each to the value of its field type; a piece that is not key=value
\* raises ArgumentTypeError, an undeclared key ArgumentKeyError, and a ','
\* or '=' inside quotes does not split a piece.
C18_StructParse ==
    (conv.pc = "done" /\ conv.decl.cls = "dict") =>
        LET a == strip_ws(conv.token)
            ps == ref_split(interior(a), ",")
            keys == {strip(ref_split(ps[k], "=")[1]) : k \in 1..Len(ps)}
        IN  /\ ~bracketed(a, "{", "}") => conv.exc = "ArgumentTypeError"
            /\ (bracketed(a, "{", "}") /\ closed(interior(a))) =>
                /\ as_ref
                /\ conv.exc = "none" =>
                    /\ conv.val.kind = "Namespace"
                    /\ DOMAIN conv.val.sub = keys
                    /\ keys \subseteq DOMAIN conv.decl.fields
                /\ conv.exc = "ArgumentKeyError" =>
                    \E k \in 1..Len(ps) :
                        /\ Len(ref_split(ps[k], "=")) = 2
                        /\ strip(ref_split(ps[k], "=")[1])
                                \notin DOMAIN conv.decl.fields
                /\ (\E k \in 1..Len(ps) : Len(ref_split(ps[k], "=")) # 2)
                        => conv.exc \in {"ArgumentTypeError", "ArgumentKeyError"}

\* "{j='a,b',k=1}": the quoted ',' splits nothing, l is absent
C18_Witness ==
    /\ conv.pc = "done"
    /\ conv.decl = t_struct
    /\ conv.token = <<"{">> \o pair("j", <<"'", "a", ",", "b", "'">>) \o <<",">>
                        \o pair("k", <<"1">>) \o <<"}">>
    /\ conv.val = NamespaceV(<<"j">> :> StrV(<<"a", ",", "b">>) @@ <<"k">> :> IntV(1))

\* C19: a token handed to a list of lists or a list of structs with a list
\* field, for an argument and for an option alike, gives the value nested
\* in the same way, and an error of a nested level leaves with its own
\* kind: ArgumentKeyError for an undeclared key, ArgumentTypeError for a
\* bad element.
C19_NestedParse ==
    (/\ conv.pc = "done"
     /\ conv.decl.cls = "list"
     /\ conv.decl.elem[1].cls \in {"list", "dict"}
     /\ bracketed(strip_ws(conv.token), "[", "]")
     /\ closed(interior(strip_ws(conv.token))))
    => /\ conv.caller \in {"argument", "option"}
       /\ as_ref

\* "[{k=1,l=[1,23]}]" as the value of an option
C19_Witness ==
    /\ conv.pc = "done"
    /\ conv.caller = "option"
    /\ conv.decl = PyList(t_struct)
    /\ conv.token = <<"[", "{">> \o pair("k", <<"1">>) \o <<",">>
                        \o pair("l", <<"[", "1", ",", "2", "3", "]">>)
                        \o <<"}", "]">>
    /\ conv.val = ListV(<<NamespaceV(<<"k">> :> IntV(1)
                            @@ <<"l">> :> ListV(<<IntV(1), IntV(23)>>))>>)

-----------------------------------------------------------------------------
(* C20: the builder *)

\* the names of the objects of a sequence of ids
names_of(tr, ids) == [k \in 1..Len(ids) |-> tr[ids[k]].name]

\* no element of the sequence occurs twice
distinct(seq) == \A i, j \in 1..Len(seq) : i # j => seq[i] # seq[j]

range(seq) == {seq[k] : k \in 1..Len(seq)}

\* every option an object owns
options_of(tr, x) == range(tr[x].options) \cup range(tr[x].longoptions)

\* the children of a group and the options of an object are as declared
well_formed(tr, x) ==
    /\ distinct(names_of(tr, tr[x].groups))
    /\ distinct(names_of(tr, tr[x].commands))
    /\ range(names_of(tr, tr[x].groups))
            \cap range(names_of(tr, tr[x].commands)) = {}
    /\ \A o \in options_of(tr, x) : o.short # <<>> \/ o.long # <<>>
    /\ \A o \in options_of(tr, x) :
            /\ o.short # <<>> => o \in range(tr[x].options)
            /\ o.long # <<>> => o \in range(tr[x].longoptions)
    /\ distinct([k \in 1..Len(tr[x].options) |-> tr[x].options[k].short])
    /\ distinct([k \in 1..Len(tr[x].longoptions) |-> tr[x].longoptions[k].long])

\* a call with these inputs would leave its target not well formed
breaking(tr, b) ==
    \/ /\ b.op \in {"add_group", "add_command"}
       /\ b.name \in range(names_of(tr, tr[b.target].groups))
                        \cup range(names_of(tr, tr[b.target].commands))
    \/ /\ b.op = "add_option"
       /\ \/ b.short = <<>> /\ b.long = <<>>
          \/ b.short # <<>>
                /\ \E o \in options_of(tr, b.target) : o.short = b.short
          \/ b.long # <<>>
                /\ \E o \in options_of(tr, b.target) : o.long = b.long

\* C20: after any sequence of add_group, add_command and add_option calls,
\* failed ones included, the child-group names of every group are unique,
\* its child-command names are unique and disjoint from them, every option
\* has a short or a long name and no two options of one owner share a short
\* or a long name; a call that would break this raises AssertionError and
\* leaves the tree as it was.
C20_BuilderInvariants ==
    /\ [](\A x \in DOMAIN tree : well_formed(tree, x))
    /\ [][(build'.n = build.n + 1 /\ breaking(tree, build'))
            => (build'.exc = "AssertionError" /\ tree' = tree)]_vars

\* the root has a child of its own name: add_option("a") on it failed after
\* the option was registered
C20_Witness ==
    /\ build.n = 2
    /\ build.op = "add_option"
    /\ build.target = "root"
    /\ build.short = t_a
    /\ build.exc = "AssertionError"
    /\ \E o \in options_of(tree, "root") : o.short = t_a

-----------------------------------------------------------------------------
(* C21: the value of add_option *)

\* C21: an add_option call that raises nothing returns the option object it
\* has just registered, on a command and on a group (the root included)
\* alike.
C21_Claim ==
    (build.op = "add_option" /\ build.exc = "none") =>
        /\ build.ret.kind = "OptionType"
        /\ build.ret.opt[1] \in options_of(tree, build.target)
        /\ build.ret.opt[1].short = build.short
        /\ build.ret.opt[1].long = build.long

-----------------------------------------------------------------------------
(* C22: Namespace lookups *)

\* names looked up in the unified namespace of a Result: a level, an option
\* of the root, the start of a level's name, a name no key starts with
LookupNames == {t_new, t_class, <<"l", "v", "l">>, <<"n", "e">>, <<"z">>}

\* the keys of a namespace that start with item + "."
under(ns, item) == {k \in DOMAIN ns : startswith(k, item \o <<".">>)}

\* C22: in the unified namespace of a finished parse, the lookup of a name
\* that is no key and no 'name.' prefix of a key gives None; the lookup of
\* a name that is no key but such a prefix gives the namespace of exactly
\* the keys under it, with the prefix removed.
C22_Claim ==
    pc = "done" =>
        \A item \in LookupNames :
            LET got == ns_getitem(cli.ns, item)
                keys == under(cli.ns, item)
            IN  item \notin DOMAIN cli.ns =>
                    IF keys = {} THEN got = NoneV
                    ELSE /\ got.kind = "Namespace"
                         /\ DOMAIN got.sub
                                = {slice_from(k, Len(item) + 1) : k \in keys}
                         /\ \A k \in keys :
                                got.sub[slice_from(k, Len(item) + 1)] = cli.ns[k]

-----------------------------------------------------------------------------
(* C23: two interleaved parse() calls *)

\* the parse() calls there are: the running one and the suspended one
threads == {context} \cup {other[k] : k \in 1..Len(other)}

\* the call ended as the first call, which ran alone, ended on the same input
as_alone(ctx) ==
    (/\ hist.first # <<>>
     /\ ctx.pc = "done"
     /\ ctx.tokens = hist.first[1].tokens
     /\ ctx.partial = hist.first[1].partial)
    => /\ ctx.outcome = hist.first[1].outcome
       /\ ctx.cli = hist.first[1].cli
       /\ ctx.calls = hist.first[1].calls

\* C23: of two parse() calls interleaved step by step on one declaration
\* tree, each ends with the Result or the error the same call gave when it
\* ran alone, and a step of one call leaves the other call's Result and
\* position as they were.
C23_NoInterference ==
    /\ [](\A ctx \in threads : as_alone(ctx))
    /\ [][\/ other' = other
          \/ other' = <<context>> /\ context' = other[1]]_vars

\* a call has ended as it did alone while the other call, made with another
\* command line, is suspended in the middle of its scan
C23_Witness ==
    /\ hist.first # <<>>
    /\ pc = "done"
    /\ outcome = "Result"
    /\ tokens = <<t_class, t_new, t_ab, t_7>>
    /\ tokens = hist.first[1].tokens
    /\ other # <<>>
    /\ other[1].pc = "scan"
    /\ other[1].tokens = <<t_new, <<"-", "t">>, t_minus9, t_7>>
    /\ Len(other[1].stack) = 2
    /\ other[1].stack[2].i = 2

-----------------------------------------------------------------------------
(* C24: the escape character *)

\* the positions of a string that follow an escape character in force
escaped(s) == {i \in 1..Len(s) : ref_scan(SubSeq(s, 1, i - 1)).esc}

\* how often a character occurs in a string
count(s, c) == Cardinality({i \in 1..Len(s) : s[i] = c})

\* C24: in what tokenize returns, a backslash stands only where the input
\* has an escaped backslash (the escape character itself is dropped), every
\* escaped character of the input is there, and an escaped character neither
\* separates two tokens nor opens or closes a quote or a group.
C24_Claim ==
    /\ lex.pc = "returned" =>
        LET out == concat(lex.st.tokens)
        IN  /\ count(out, "\\")
                  = Cardinality({i \in escaped(lex.s) : lex.s[i] = "\\"})
            /\ \A c \in Chars :
                  Cardinality({i \in escaped(lex.s) : lex.s[i] = c}) <= count(out, c)
            /\ Len(lex.st.tokens) <= 1 + Cardinality(ref_cuts(lex.s, " "))
    /\ lex.pc = "raised" => ~closed(lex.s)

-----------------------------------------------------------------------------
(* C25: the quotes of a scalar value *)

\* a string without one layer of matching quote characters around it, as it
\* is if there is none
one_layer(t) ==
    IF Len(t) >= 2 /\ t[1] \in QuoteChars /\ t[Len(t)] = t[1] THEN interior(t)
    ELSE t

\* C25: the text a str argument or option is made of is the value token
\* without the whitespace around it and without one layer of matching
\* quotes (and the whitespace inside them, at most): an unmatched quote
\* character at either end stays.
C25_Claim ==
    (conv.pc = "done" /\ conv.decl.cls = "str" /\ conv.exc = "none") =>
        conv.val \in {StrV(one_layer(strip_ws(conv.token))),
                      StrV(strip_ws(one_layer(strip_ws(conv.token))))}

-----------------------------------------------------------------------------
(* C26: the levels of a Result *)

\* C26: all through a parse the per-level namespace array has highest level
\* + 1 entries and no 'bad level' ParseExecption is raised; the highest
\* level changes only when the scan enters a group or command one level
\* down, whose defaults are then set, and grows by exactly one there.
C26_Levels ==
    /\ [](/\ Len(cli.levels_ns) = cli.max_level + 1
          /\ outcome # "ParseExecption"
          /\ pc = "scan" => tree[top.node].level <= cli.max_level)
    /\ [][cli'.max_level
            = cli.max_level
                + (IF pc = "scan" /\ Len(stack') = Len(stack) + 1 THEN 1 ELSE 0)]_vars

\* "class new ab 7": two levels below the root
C26_Witness ==
    /\ pc = "done"
    /\ outcome = "Result"
    /\ cli.command = "class_new"
    /\ cli.max_level = 2
    /\ Len(cli.levels_ns) = 3

-----------------------------------------------------------------------------
(* C27: the unparsed tokens *)

\* the token about to be scanned is no option, and no child of the group,
\* or one more than the arguments of the command
unknown_token ==
    /\ at_token
    /\ ~is_option(cur(top))
    /\ IF tree[top.node].kind = "group"
       THEN \A k \in DOMAIN tree :
                tree[k].parent = top.node => tree[k].name # cur(top)
       ELSE top.argnum >= Len(tree[top.node].arguments)

\* C27: at whatever depth an unknown token is met, the unparsed tokens
\* become the whole input from that token on and the scan ends there, every
\* owner above waiting at the name of the child it entered; the unparsed
\* tokens change at no other step, so a parse that meets no unknown token
\* leaves them empty.
C27_UnparsedSuffix ==
    /\ [](/\ pc = "scan" => cli.left_tokens = <<>>
          /\ \A k \in 1..(Len(stack) - 1) :
                stack[k].start + stack[k].i + 1 = stack[k + 1].start)
    /\ [][/\ unknown_token =>
                /\ cli'.left_tokens = SubSeq(tokens, position, Len(tokens))
                /\ cli'.left_tokens[1] = cur(top)
                /\ pc' # "scan"
          /\ ~unknown_token => cli'.left_tokens = cli.left_tokens]_vars

\* "class xx new", partial: the unknown token met one level down, with one
\* token after it
C27_Witness ==
    /\ pc = "after_try"
    /\ partial
    /\ tokens = <<t_class, t_ab, t_new>>
    /\ cli.group = "class"
    /\ cli.left_tokens = <<t_ab, t_new>>

-----------------------------------------------------------------------------
(* C28: parse() calls one after the other *)

\* C28: no step of a parse() call, ended well or not, changes the
\* declaration tree, and a call made after other calls ends, on the command
\* line of the first call, with the Result or the error of the first call.
C28_FreshResult ==
    /\ [](tree = DemoTree /\ as_alone(context))
    /\ [][pc = "idle" /\ pc' = "scan" =>
            /\ cli'.command = NoNode
            /\ cli'.command_arguments = <<>>
            /\ cli'.args_ns = Namespace
            /\ cli'.left_tokens = <<>>
            /\ cli'.max_level = 0]_vars

\* the third call has returned, for "new 7", the Result of the first call
C28_Witness ==
    /\ hist.n = 2
    /\ hist.first # <<>>
    /\ pc = "done"
    /\ outcome = "Result"
    /\ tokens = <<t_new, t_7>>
    /\ tokens = hist.first[1].tokens
    /\ cli.command = "new"
    /\ Len(cli.command_arguments) = 1

-----------------------------------------------------------------------------
(* C29: the count of consumed tokens *)

\* an activation returns to its caller, nothing raised
returning ==
    /\ pc = "scan"
    /\ Len(stack') = Len(stack) - 1
    /\ pc' \in {"scan", "after_try"}
    /\ cli' = cli

\* C29: no activation's index goes beyond its token list; an activation
\* that returns has its index at the end of its list (it returns 1 + the
\* number of tokens it was handed) and leaves its caller's index at the end
\* of the caller's list, so that the caller scans no more token; the owners
\* entered form one path down the tree, and a command once matched stays.
C29_ConsumedAll ==
    /\ [](pc = "scan" =>
            /\ \A k \in 1..Len(stack) :
                    stack[k].i <= Len(slice_from(tokens, stack[k].start))
            /\ \A k \in 1..(Len(stack) - 1) :
                    tree[stack[k + 1].node].parent = stack[k].node)
    /\ [][/\ returning =>
                /\ top.i = Len(frame_tokens(top))
                /\ stack' # <<>> =>
                    /\ stack'[Len(stack')].i = top.i + 1 + stack[Len(stack')].i
                    /\ stack'[Len(stack')].i
                            = Len(slice_from(tokens, stack'[Len(stack')].start))
          /\ cli.command # NoNode => cli'.command = cli.command]_vars

\* "class new ab 7": the command has returned 3 to the group, which stands
\* at the end of its three tokens
C29_Witness ==
    /\ pc = "scan"
    /\ tokens = <<t_class, t_new, t_ab, t_7>>
    /\ Len(stack) = 2
    /\ top.node = "class"
    /\ top.i = 3
    /\ cli.command = "class_new"

-----------------------------------------------------------------------------
(* C30: tokens that start with '-' in the scan of a command *)

\* the scan of a command is at a token that starts with "-"
at_dash_token ==
    /\ at_token
    /\ tree[top.node].kind = "command"
    /\ startswith(cur(top), <<"-">>)

\* C30: a token that starts with '-' met in the scan of a command is never
\* bound to an argument, arguments unfilled or not: it raises OptionNotFound
\* if the command declares no option of that name, and else the scan goes
\* on past the option, and past the next token too if the option is typed,
\* with the same arguments bound; an argument is bound only on a token that
\* does not start with '-'.
C30_DashIsOption ==
    [][/\ at_dash_token =>
            /\ cli'.command_arguments = cli.command_arguments
            /\ cli'.args_ns = cli.args_ns
            /\ named_by(top.node, cur(top)) = {}
                    => pc' = "done" /\ outcome' = "OptionNotFound"
            /\ (named_by(top.node, cur(top)) # {} /\ pc' = "scan") =>
                    /\ stack'[Len(stack')].argnum = top.argnum
                    /\ \E o \in named_by(top.node, cur(top)) :
                            stack'[Len(stack')].i
                                = top.i + (IF o.argtype = "None" THEN 1 ELSE 2)
       /\ (pc = "scan" /\ cli'.command_arguments # cli.command_arguments)
            => ~startswith(cur(top), <<"-">>)]_vars

\* "new -9": the argument of new is unfilled and -9 is no option of new
C30_Witness ==
    /\ pc = "done"
    /\ tokens = <<t_new, t_minus9>>
    /\ outcome = "OptionNotFound"
    /\ cli.command = "new"
    /\ cli.command_arguments = <<>>

====
